---- MODULE Spec2Model ----
(***************************************************************************)
(* Model of the box-dj turntable controller (src/rpi/i2c.py,               *)
(* src/rpi/mixer.py, src/rpi/config.py), of the single-song Player         *)
(* (src/rpi/play_song.py) and of the Spotify token cache                   *)
(* (src/rpi/server.py).                                                    *)
(*                                                                         *)
(* Python floats are modelled as exact rationals <<n, d>> (d > 0, lowest   *)
(* terms); None is the empty tuple and a present value x is <<x>>.         *)
(*                                                                         *)
(* Specifications:                                                         *)
(*   SpecTracker    PredictiveVelocityTracker fed a stream of samples      *)
(*   SpecSmoother   EncoderSmoother fed a stream of samples                *)
(*   SpecEstimators both estimators fed side by side, and reset            *)
(*   Spec           DJMixer polling loop (reader, trackers, decks, sinks)  *)
(*   SpecConfig     the same loop started under an arbitrary configuration *)
(*   SpecButtons    the polling loop with buttons pressed in the packets   *)
(*   SpecDual       the polling loop with one reader per deck              *)
(*   SpecDeck       one DJDeck under any sequence of calls of its methods  *)
(*   SpecSpike      one DJDeck fed a steady speed and a spike              *)
(*   SpecPlayer     the Player's calling thread and its main-loop thread   *)
(*   SpecToken      get_spotify_token called again and again               *)
(***************************************************************************)
EXTENDS Integers, Sequences, FiniteSets, TLC

VARIABLES
    tracker,    \* a stand-alone PredictiveVelocityTracker
    smoother,   \* a stand-alone EncoderSmoother
    fed,        \* samples fed so far to the stand-alone estimator
    outs,       \* values the stand-alone estimator returned, in order
    cfg,        \* the thresholds of config.py the mixer runs with
    hostNow,    \* host clock (time.time() * 1000) at the latest tick
    devNow,     \* device clock (packet timestamp) at the latest tick
    reader,     \* the EncoderReader of deck 1 (shared by deck 2)
    reader2,    \* deck 2's own EncoderReader (dual-encoder mode), else None
    deck1,      \* DJDeck 1
    deck2,      \* DJDeck 2 (shared-encoder dual-deck mode)
    sink,       \* properties of the GStreamer elements: tempo of rate1, rate2,
                \* volume of the mixer pads, level of reverb1, reverb2
    tick,       \* what the latest run of _on_i2c_update did
    mixer,      \* the button and reverb fields of DJMixer
    calls,      \* the calls made on a stand-alone DJDeck, in order
    player,     \* the single-song Player (play_song.py): pipeline, main loop
    gst,        \* the playbin pipelines made so far: state, End-of-Stream message
    callerAt,   \* where the thread calling the Player's methods stands
    loopAt,     \* where the main-loop thread stands in _on_bus_message
    TOKEN_CACHE,\* the token cache of the token server
    unixTime,   \* time.time() of the token server at its latest call, in seconds
    spotify,    \* the tokens Spotify issued, in order: when, and for how long
    served      \* the latest call of get_spotify_token: its now, what it returned;
                \* n counts the calls, hits those answered from the cache

vars == <<tracker, smoother, fed, outs, cfg, hostNow, devNow,
          reader, reader2, deck1, deck2, sink, tick, mixer, calls,
          player, gst, callerAt, loopAt, TOKEN_CACHE, unixTime, spotify, served>>

estVars == <<tracker, smoother, fed, outs>>
playVars == <<player, gst, callerAt, loopAt>>
tokVars == <<TOKEN_CACHE, unixTime, spotify, served>>
mixVars == <<cfg, hostNow, devNow, reader, reader2, deck1, deck2, sink, tick, mixer,
             calls, playVars, tokVars>>
ctlVars == <<cfg, hostNow, devNow, reader, reader2, deck1, deck2, sink, tick, mixer,
             calls>>

(***************************************************************************)
(* Bounds of the model.                                                    *)
(***************************************************************************)
MaxSamples == 5        \* samples fed to a stand-alone estimator
MaxTicks == 4          \* runs of the polling callback
MaxSinkFailures == 1   \* ticks on which a sink write raises
MaxReadErrors == 2      \* failed I2C reads
MaxCalls == 3          \* calls made on a stand-alone DJDeck
MaxFeeds == 4          \* samples fed to the two estimators side by side
MaxResets == 1         \* resets of the two estimators
MaxSpikeCalls == 4     \* samples processed by a deck fed a steady speed and a spike
MaxPipelines == 3      \* pipelines the Player builds (calls of play_song)
MaxTokenCalls == 4     \* calls of get_spotify_token
maxlen == 3            \* DJDeck.encoder_read_history: deque(maxlen=100), scaled down
window_size == 3       \* EncoderSmoother(window_size=10), scaled down

(***************************************************************************)
(* Program constants.                                                      *)
(***************************************************************************)
VELOCITY_TIMEOUT_MS == 500
I2C_POLL_RATE_MS == 20
VELOCITY_SCALE == 100
TEMPO_FLOOR == <<1, 100>>     \* the literal 0.01 of _update_rate
CHANGE_EPSILON == <<1, 1000>> \* the literal 0.001 of set_volume, set_deck1_reverb
DEFAULT_VOLUME == <<1, 1>>
VOLUME_STEP == <<1, 20>>      \* DJMixer.VOLUME_STEP = 0.05
REVERB_AMOUNT == <<1, 2>>     \* DJMixer.REVERB_AMOUNT = 0.5
TOKEN_MARGIN == 60            \* the literal 60 of get_spotify_token
ControlModes == {"velocity", "position", "turntable"}
DECK_CONTROL_MODE == "velocity"   \* DECK1_CONTROL_MODE, DECK2_CONTROL_MODE

(***************************************************************************)
(* Exact arithmetic standing for Python float arithmetic.                  *)
(***************************************************************************)
Abs(x) == IF x < 0 THEN -x ELSE x

RECURSIVE GCD(_, _)
GCD(a, b) == IF b = 0 THEN a ELSE GCD(b, a % b)

\* n / d as a rational in lowest terms with positive denominator (d /= 0)
Rat(n, d) ==
    LET s == IF d < 0 THEN -1 ELSE 1
        g == GCD(Abs(n), Abs(d))
    IN  <<(s * n) \div g, (s * d) \div g>>

FromInt(i) == <<i, 1>>
Zero == <<0, 1>>
One == <<1, 1>>
RAdd(x, y) == Rat(x[1] * y[2] + y[1] * x[2], x[2] * y[2])
RSub(x, y) == Rat(x[1] * y[2] - y[1] * x[2], x[2] * y[2])
RDivInt(x, i) == Rat(x[1], x[2] * i)
RLt(x, y) == x[1] * y[2] < y[1] * x[2]
RAbs(x) == <<Abs(x[1]), x[2]>>
RMax(x, y) == IF RLt(x, y) THEN y ELSE x
RMin(x, y) == IF RLt(y, x) THEN y ELSE x

RECURSIVE RSum(_)
RSum(s) == IF s = <<>> THEN Zero ELSE RAdd(s[1], RSum(Tail(s)))

None == <<>>
Some(x) == <<x>>

\* variant of DequeAppend: nothing is evicted
DequeAppendUnbounded(q, x, n) == Append(q, x)

\* collections.deque(maxlen=n).append
DequeAppend(q, x, n) ==
    IF Len(q) >= n THEN Append(Tail(q), x) ELSE Append(q, x)

(***************************************************************************)
(* PredictiveVelocityTracker (i2c.py)                                      *)
(***************************************************************************)
NewTracker ==
    [last_position |-> None,
     last_timestamp |-> None,
     predicted_velocity |-> Zero,
     last_velocity_update_time |-> None]

\* variant of ChangedBranch: the velocity taken per millisecond, not per second
ChangedBranchPerMs(self, position, timestamp, current_time_ms) ==
    LET delta_pos == position - self.last_position[1]
        delta_ms == timestamp - self.last_timestamp[1]
        s1 == IF delta_ms > 1
              THEN [self EXCEPT !.predicted_velocity = Rat(delta_pos, delta_ms),
                                !.last_velocity_update_time = Some(current_time_ms)]
              ELSE self
    IN  [s1 EXCEPT !.last_position = Some(position),
                   !.last_timestamp = Some(timestamp)]

\* variant of ChangedBranch: a delta of 1 ms or less zeroes the prediction
ChangedBranchZeroing(self, position, timestamp, current_time_ms) ==
    LET delta_pos == position - self.last_position[1]
        delta_ms == timestamp - self.last_timestamp[1]
        s1 == IF delta_ms > 1
              THEN [self EXCEPT !.predicted_velocity = Rat(1000 * delta_pos, delta_ms),
                                !.last_velocity_update_time = Some(current_time_ms)]
              ELSE [self EXCEPT !.predicted_velocity = Zero]
    IN  [s1 EXCEPT !.last_position = Some(position),
                   !.last_timestamp = Some(timestamp)]

\* variant of ChangedBranch: a delta of 1 ms or less is taken as 1 ms
ChangedBranchUnguarded(self, position, timestamp, current_time_ms) ==
    LET delta_pos == position - self.last_position[1]
        delta_ms == timestamp - self.last_timestamp[1]
        s1 == [self EXCEPT !.predicted_velocity =
                               IF delta_ms > 1 THEN Rat(1000 * delta_pos, delta_ms)
                                               ELSE FromInt(1000 * delta_pos),
                           !.last_velocity_update_time = Some(current_time_ms)]
    IN  [s1 EXCEPT !.last_position = Some(position),
                   !.last_timestamp = Some(timestamp)]

\* update(), the branch taken when the position changed.
\* delta_time = delta_ms / 1000.0 > 0.001 exactly when delta_ms > 1.
ChangedBranch(self, position, timestamp, current_time_ms) ==
    LET delta_pos == position - self.last_position[1]
        delta_ms == timestamp - self.last_timestamp[1]
        s1 == IF delta_ms > 1
              THEN [self EXCEPT !.predicted_velocity = Rat(1000 * delta_pos, delta_ms),
                                !.last_velocity_update_time = Some(current_time_ms)]
              ELSE self
    IN  [s1 EXCEPT !.last_position = Some(position),
                   !.last_timestamp = Some(timestamp)]

\* variant of HeldBranch: the timeout read as seconds
HeldBranchSeconds(self, current_time_ms) ==
    LET time_since_last_change == current_time_ms - self.last_velocity_update_time[1]
    IN  IF time_since_last_change > VELOCITY_TIMEOUT_MS * 1000
        THEN [self EXCEPT !.predicted_velocity = Zero]
        ELSE self

\* update(), the branch taken when the position did not change
HeldBranch(self, current_time_ms) ==
    LET time_since_last_change == current_time_ms - self.last_velocity_update_time[1]
    IN  IF time_since_last_change > VELOCITY_TIMEOUT_MS
        THEN [self EXCEPT !.predicted_velocity = Zero]
        ELSE self

\* variant of TrackerUpdate: the reference point follows every sample
TrackerUpdateAlwaysTracking(self, position, timestamp, current_time_ms) ==
    IF self.last_position = None
    THEN [self |-> [self EXCEPT !.last_position = Some(position),
                                !.last_timestamp = Some(timestamp),
                                !.last_velocity_update_time = Some(current_time_ms)],
          ret |-> Zero]
    ELSE LET position_changed == position /= self.last_position[1]
             s == IF position_changed
                  THEN ChangedBranch(self, position, timestamp, current_time_ms)
                  ELSE [HeldBranch(self, current_time_ms)
                           EXCEPT !.last_timestamp = Some(timestamp)]
         IN  [self |-> s, ret |-> s.predicted_velocity]

\* PredictiveVelocityTracker.update: the tracker afterwards and the value returned
TrackerUpdate(self, position, timestamp, current_time_ms) ==
    IF self.last_position = None
    THEN [self |-> [self EXCEPT !.last_position = Some(position),
                                !.last_timestamp = Some(timestamp),
                                !.last_velocity_update_time = Some(current_time_ms)],
          ret |-> Zero]
    ELSE LET position_changed == position /= self.last_position[1]
             s == IF position_changed
                  THEN ChangedBranch(self, position, timestamp, current_time_ms)
                  ELSE HeldBranch(self, current_time_ms)
         IN  [self |-> s, ret |-> s.predicted_velocity]

\* variant of TrackerReset: the predicted velocity survives the reset
TrackerResetKeepingVelocity(self) ==
    [self EXCEPT !.last_position = None,
                 !.last_timestamp = None,
                 !.last_velocity_update_time = None]

\* PredictiveVelocityTracker.reset
TrackerReset(self) ==
    [self EXCEPT !.last_position = None,
                 !.last_timestamp = None,
                 !.predicted_velocity = Zero,
                 !.last_velocity_update_time = None]

(***************************************************************************)
(* EncoderSmoother (i2c.py)                                                *)
(***************************************************************************)
NewSmoother ==
    [positions |-> <<>>, timestamps |-> <<>>, last_velocity |-> Zero]

\* variant of SmootherUpdate: the fallback returns 0.0, not last_velocity
SmootherUpdateZeroFallback(self, position, timestamp) ==
    LET positions == DequeAppend(self.positions, position, window_size)
        timestamps == DequeAppend(self.timestamps, timestamp, window_size)
        s1 == [self EXCEPT !.positions = positions, !.timestamps = timestamps]
        delta_pos == positions[Len(positions)] - positions[1]
        delta_ms == timestamps[Len(timestamps)] - timestamps[1]
    IN  IF Len(positions) < 2
        THEN [self |-> s1, ret |-> Zero]
        ELSE IF delta_ms > 1
        THEN [self |-> [s1 EXCEPT !.last_velocity = Rat(1000 * delta_pos, delta_ms)],
              ret |-> Rat(1000 * delta_pos, delta_ms)]
        ELSE [self |-> s1, ret |-> Zero]

\* variant of SmootherUpdate: the velocity is taken between the two newest samples
SmootherUpdateAdjacent(self, position, timestamp) ==
    LET positions == DequeAppend(self.positions, position, window_size)
        timestamps == DequeAppend(self.timestamps, timestamp, window_size)
        s1 == [self EXCEPT !.positions = positions, !.timestamps = timestamps]
        n == Len(positions)
    IN  IF n < 2
        THEN [self |-> s1, ret |-> Zero]
        ELSE IF timestamps[n] - timestamps[n - 1] > 1
        THEN [self |-> [s1 EXCEPT !.last_velocity =
                            Rat(1000 * (positions[n] - positions[n - 1]),
                                timestamps[n] - timestamps[n - 1])],
              ret |-> Rat(1000 * (positions[n] - positions[n - 1]),
                          timestamps[n] - timestamps[n - 1])]
        ELSE [self |-> s1, ret |-> s1.last_velocity]

\* EncoderSmoother.update: the smoother afterwards and the value returned
SmootherUpdate(self, position, timestamp) ==
    LET positions == DequeAppend(self.positions, position, window_size)
        timestamps == DequeAppend(self.timestamps, timestamp, window_size)
        s1 == [self EXCEPT !.positions = positions, !.timestamps = timestamps]
        delta_pos == positions[Len(positions)] - positions[1]
        delta_ms == timestamps[Len(timestamps)] - timestamps[1]
    IN  IF Len(positions) < 2
        THEN [self |-> s1, ret |-> Zero]
        ELSE IF delta_ms > 1
        THEN [self |-> [s1 EXCEPT !.last_velocity = Rat(1000 * delta_pos, delta_ms)],
              ret |-> Rat(1000 * delta_pos, delta_ms)]
        ELSE [self |-> s1, ret |-> s1.last_velocity]

\* EncoderSmoother.reset
SmootherReset(self) ==
    [self EXCEPT !.positions = <<>>, !.timestamps = <<>>, !.last_velocity = Zero]

(***************************************************************************)
(* config.py                                                               *)
(***************************************************************************)
ShippedConfig ==
    [NORMAL_SPEED_MIN |-> -120,
     NORMAL_SPEED_MAX |-> -80,
     MIN_PLAYBACK_RATE |-> Zero,
     MAX_PLAYBACK_RATE |-> FromInt(3)]

(***************************************************************************)
(* Player (play_song.py) and the token cache (server.py): as constructed   *)
(***************************************************************************)
\* Player.__init__: no pipeline, the main loop running in its own thread
NewPlayer == [pipeline |-> None, loop_running |-> TRUE]

\* a thread that is inside no method
Outside == [op |-> "none", line |-> 0, raised |-> FALSE]

PlayerConstructed ==
    /\ player = NewPlayer
    /\ gst = <<>>
    /\ callerAt = Outside
    /\ loopAt = [line |-> 0, src |-> 0]

\* TOKEN_CACHE = {"access_token": None, "expires_at": 0}
TokenServerLoaded ==
    /\ TOKEN_CACHE = [access_token |-> None, expires_at |-> 0]
    /\ unixTime = 1000
    /\ spotify = <<>>
    /\ served = [n |-> 0, hits |-> 0, token |-> None, fetched |-> FALSE,
                 raised |-> FALSE, now |-> 0]

(***************************************************************************)
(* EncoderReader (i2c.py)                                                  *)
(***************************************************************************)
NewReader ==
    [tracker_enc1 |-> NewTracker,
     tracker_enc2 |-> NewTracker,
     last_enc1_position |-> 0,
     last_enc2_position |-> 0,
     last_timestamp |-> 0,
     read_errors |-> 0,
     total_reads |-> 0]

\* variant of ReadRawDataFailed: a failed transfer also resets the estimators
ReadRawDataFailedResetting(self) ==
    [self EXCEPT !.read_errors = @ + 1,
                 !.tracker_enc1 = NewTracker,
                 !.tracker_enc2 = NewTracker]

\* read_raw_data when the I2C transfer or the unpacking raises
ReadRawDataFailed(self) ==
    [self EXCEPT !.read_errors = @ + 1]

\* read_raw_data when the packet is read and unpacked
ReadRawDataOk(self) ==
    [self EXCEPT !.total_reads = @ + 1]

\* variant of Read: the device is polled a second time for the second deck
ReadPolledPerDeck(self, enc1_position, enc2_position, timestamp, current_time_ms) ==
    LET s0 == ReadRawDataOk(ReadRawDataOk(self))
        a1 == TrackerUpdate(s0.tracker_enc1, enc1_position, timestamp, current_time_ms)
        a2 == TrackerUpdate(s0.tracker_enc2, enc2_position, timestamp, current_time_ms)
        r1 == TrackerUpdate(a1.self, enc1_position, timestamp, current_time_ms)
        r2 == TrackerUpdate(a2.self, enc2_position, timestamp, current_time_ms)
    IN  [self |-> [s0 EXCEPT !.tracker_enc1 = r1.self,
                             !.tracker_enc2 = r2.self,
                             !.last_enc1_position = enc1_position,
                             !.last_enc2_position = enc2_position,
                             !.last_timestamp = timestamp],
         ret |-> [enc1_position |-> enc1_position,
                  enc1_velocity |-> r1.ret,
                  enc2_position |-> enc2_position,
                  enc2_velocity |-> r2.ret,
                  timestamp |-> timestamp]]

\* read() on a packet that was read: the reader afterwards and the dict returned
Read(self, enc1_position, enc2_position, timestamp, current_time_ms) ==
    LET s0 == ReadRawDataOk(self)
        r1 == TrackerUpdate(s0.tracker_enc1, enc1_position, timestamp, current_time_ms)
        r2 == TrackerUpdate(s0.tracker_enc2, enc2_position, timestamp, current_time_ms)
    IN  [self |-> [s0 EXCEPT !.tracker_enc1 = r1.self,
                             !.tracker_enc2 = r2.self,
                             !.last_enc1_position = enc1_position,
                             !.last_enc2_position = enc2_position,
                             !.last_timestamp = timestamp],
         ret |-> [enc1_position |-> enc1_position,
                  enc1_velocity |-> r1.ret,
                  enc2_position |-> enc2_position,
                  enc2_velocity |-> r2.ret,
                  timestamp |-> timestamp]]

\* get_error_rate
GetErrorRate(self) ==
    IF self.total_reads = 0 THEN Zero ELSE Rat(self.read_errors, self.total_reads)

(***************************************************************************)
(* DJDeck (mixer.py)                                                       *)
(***************************************************************************)
\* variant of NewDeck: the deck starts in CALIBRATING
NewDeckCalibrating(deck_id, volume_pad) ==
    [deck_id |-> deck_id,
     volume_pad |-> volume_pad,
     control_mode |-> DECK_CONTROL_MODE,
     state |-> "CALIBRATING",
     current_rate |-> One,
     current_volume |-> DEFAULT_VOLUME,
     encoder_read_history |-> <<>>]

\* volume_pad is None or the name of the mixer pad the deck writes its volume to
NewDeck(deck_id, volume_pad) ==
    [deck_id |-> deck_id,
     volume_pad |-> volume_pad,
     control_mode |-> DECK_CONTROL_MODE,
     state |-> "NORMAL_SPEED",
     current_rate |-> One,
     current_volume |-> DEFAULT_VOLUME,
     encoder_read_history |-> <<>>]

\* set_control_mode
SetControlMode(self, mode) ==
    IF mode \in ControlModes THEN [self EXCEPT !.control_mode = mode] ELSE self

\* entry[self.velocity_key]
VelocityOf(self, entry) ==
    IF self.deck_id = 1 THEN entry.enc1_velocity ELSE entry.enc2_velocity

\* NORMAL_SPEED_MIN < v < NORMAL_SPEED_MAX
InNormalBand(v) ==
    /\ RLt(FromInt(cfg.NORMAL_SPEED_MIN), v)
    /\ RLt(v, FromInt(cfg.NORMAL_SPEED_MAX))

\* variant of AvgRecentVelocity: the newest sample is left out of the mean
AvgEarlierVelocity(self) ==
    LET h == self.encoder_read_history
        n == IF Len(h) > 1 THEN Len(h) - 1 ELSE Len(h)
        prev_velocities == [i \in 1..n |-> VelocityOf(self, h[i])]
    IN  RDivInt(RSum(prev_velocities), n)

\* avg_recent_velocity = sum(prev_velocities) / len(prev_velocities)
AvgRecentVelocity(self) ==
    LET h == self.encoder_read_history
        prev_velocities == [i \in 1..Len(h) |-> VelocityOf(self, h[i])]
    IN  RDivInt(RSum(prev_velocities), Len(prev_velocities))

\* variant of UpdateStateTurntable: the newest sample alone decides the state
UpdateStateLatestOnly(self) ==
    LET h == self.encoder_read_history
    IN  IF h = <<>> THEN self
        ELSE IF InNormalBand(VelocityOf(self, h[Len(h)]))
        THEN [self EXCEPT !.state = "NORMAL_SPEED"]
        ELSE [self EXCEPT !.state = "MODULATING_SPEED"]

\* _update_state_turntable
UpdateStateTurntable(self) ==
    IF self.encoder_read_history = <<>> THEN self
    ELSE IF InNormalBand(AvgRecentVelocity(self))
    THEN [self EXCEPT !.state = "NORMAL_SPEED"]
    ELSE [self EXCEPT !.state = "MODULATING_SPEED"]

\* variant of NewRate: the candidate is not clamped
NewRateUnclamped(velocity) == RAdd(One, RDivInt(velocity, VELOCITY_SCALE))

\* new_rate of the MODULATING_SPEED case
NewRate(velocity) ==
    RMax(cfg.MIN_PLAYBACK_RATE,
         RMin(cfg.MAX_PLAYBACK_RATE, RAdd(One, RDivInt(velocity, VELOCITY_SCALE))))

\* variant of SinkTempo: no floor
SinkTempoUnfloored(rate) == rate

\* the value handed to set_property("tempo", ...) in MODULATING_SPEED
SinkTempo(rate) == RMax(TEMPO_FLOOR, rate)

\* variant of NormalSpeedRate: the rate is left as it is
NormalSpeedRateKept(self) == [self |-> self, write |-> None]

\* _update_rate, case NORMAL_SPEED: the deck afterwards and the tempo written
NormalSpeedRate(self) ==
    IF self.current_rate /= One
    THEN [self |-> [self EXCEPT !.current_rate = One], write |-> Some(One)]
    ELSE [self |-> self, write |-> None]

\* variant of ModulatingSpeedRate: every candidate is applied
ModulatingSpeedRateAlways(self) ==
    LET h == self.encoder_read_history
        new_rate == NewRate(VelocityOf(self, h[Len(h)]))
    IN  [self |-> [self EXCEPT !.current_rate = new_rate],
         write |-> Some(SinkTempo(new_rate))]

\* variant of ModulatingSpeedRate: the floored value is stored as current_rate
ModulatingSpeedRateStoringFloor(self) ==
    LET h == self.encoder_read_history
        new_rate == NewRate(VelocityOf(self, h[Len(h)]))
    IN  IF RLt(TEMPO_FLOOR, RAbs(RSub(new_rate, self.current_rate)))
        THEN [self |-> [self EXCEPT !.current_rate = SinkTempo(new_rate)],
              write |-> Some(SinkTempo(new_rate))]
        ELSE [self |-> self, write |-> None]

\* _update_rate, case MODULATING_SPEED: the deck afterwards and the tempo written
ModulatingSpeedRate(self) ==
    LET h == self.encoder_read_history
        velocity == VelocityOf(self, h[Len(h)])
        new_rate == NewRate(velocity)
    IN  IF RLt(TEMPO_FLOOR, RAbs(RSub(new_rate, self.current_rate)))
        THEN [self |-> [self EXCEPT !.current_rate = new_rate],
              write |-> Some(SinkTempo(new_rate))]
        ELSE [self |-> self, write |-> None]

\* variant of UpdateRate: NORMAL_SPEED follows the velocity as MODULATING_SPEED does
UpdateRateFollowing(self) ==
    CASE self.state = "CALIBRATING" -> [self |-> self, write |-> None]
      [] OTHER -> ModulatingSpeedRate(self)

\* _update_rate
UpdateRate(self) ==
    CASE self.state = "CALIBRATING" -> [self |-> self, write |-> None]
      [] self.state = "NORMAL_SPEED" -> NormalSpeedRate(self)
      [] self.state = "MODULATING_SPEED" -> ModulatingSpeedRate(self)

\* variant of ProcessEncoderData: processing a sample also mutes the deck
ProcessEncoderDataMuting(self, data) ==
    LET s1 == [self EXCEPT !.encoder_read_history = DequeAppend(@, data, maxlen),
                           !.current_volume = Zero]
        s2 == UpdateStateTurntable(s1)
    IN  UpdateRate(s2)

\* process_encoder_data(data), data not None.  The fields of the deck are
\* assigned before set_property is called, so they stand when it raises.
ProcessEncoderData(self, data) ==
    LET s1 == [self EXCEPT !.encoder_read_history = DequeAppend(@, data, maxlen)]
        s2 == UpdateStateTurntable(s1)
    IN  UpdateRate(s2)

\* variant of ClampUnit: only the upper limit is applied
ClampUpperOnly(volume) == RMin(One, volume)

\* max(0.0, min(1.0, volume))
ClampUnit(volume) == RMax(Zero, RMin(One, volume))

\* variant of SetVolume: no early return on an unchanged volume
SetVolumeAlways(self, volume) ==
    [self |-> [self EXCEPT !.current_volume = ClampUnit(volume)],
     write |-> IF self.volume_pad /= None THEN Some(ClampUnit(volume)) ELSE None]

\* set_volume: the deck afterwards and the volume written to the pad
SetVolume(self, volume) ==
    LET old_volume == self.current_volume
        new_volume == ClampUnit(volume)
    IN  IF RLt(RAbs(RSub(new_volume, old_volume)), CHANGE_EPSILON)
        THEN [self |-> self, write |-> None]
        ELSE [self |-> [self EXCEPT !.current_volume = new_volume],
              write |-> IF self.volume_pad /= None THEN Some(new_volume) ELSE None]

\* variant of AdjustVolume: the delta is taken as the volume
AdjustVolumeAbsolute(self, delta) == SetVolume(self, delta)

\* adjust_volume
AdjustVolume(self, delta) == SetVolume(self, RAdd(self.current_volume, delta))

(***************************************************************************)
(* DJMixer (mixer.py)                                                      *)
(***************************************************************************)
NoCall == [self |-> None, write |-> None]

\* set_deck1_reverb / set_deck2_reverb: the level afterwards and the level
\* written to the freeverb element
SetDeckReverb(current_reverb, amount) ==
    LET new_reverb == ClampUnit(amount)
    IN  IF RLt(RAbs(RSub(new_reverb, current_reverb)), CHANGE_EPSILON)
        THEN [level |-> current_reverb, write |-> None]
        ELSE [level |-> new_reverb, write |-> Some(new_reverb)]

\* the two volume buttons of one deck: up fires, then down fires
VolumeButtons(self, up, down) ==
    LET a == IF up THEN AdjustVolume(self, VOLUME_STEP)
                   ELSE [self |-> self, write |-> None]
        b == IF down THEN AdjustVolume(a.self, RSub(Zero, VOLUME_STEP))
                     ELSE [self |-> a.self, write |-> None]
    IN  [self |-> b.self,
         write |-> IF b.write /= None THEN b.write ELSE a.write,
         called |-> a.write /= None \/ b.write /= None]

\* variant of IsNewlyPressed: the button is down, whatever it was before
IsPressed(m, current_buttons, i) == i \in current_buttons

\* is_newly_pressed: button i is down and was not down in last_button_states
IsNewlyPressed(m, current_buttons, i) ==
    i \in current_buttons /\ i \notin m.last_button_states

\* the reverb toggle of one deck: the flag and the level afterwards
ReverbToggle(on, current_reverb, pressed) ==
    IF pressed
    THEN LET r == SetDeckReverb(current_reverb, IF ~on THEN REVERB_AMOUNT ELSE Zero)
         IN  [on |-> ~on, level |-> r.level, write |-> r.write]
    ELSE [on |-> on, level |-> current_reverb, write |-> None]

\* _process_button_data.  current_buttons is the set of indices i of
\* BUTTON_NAMES whose bit is set in the packet (BUTTON_NAMES[0..5] exist and
\* are distinct).  d2 is None or the second deck.
ProcessButtonData(m, d1, d2, current_buttons) ==
    LET v1 == VolumeButtons(d1, 0 \in current_buttons, 1 \in current_buttons)
        v2 == IF d2 /= None
              THEN VolumeButtons(d2[1], 2 \in current_buttons, 3 \in current_buttons)
              ELSE [self |-> None, write |-> None, called |-> FALSE]
        r1 == ReverbToggle(m.reverb1_on, m.current_reverb1,
                           IsNewlyPressed(m, current_buttons, 4))
        r2 == ReverbToggle(m.reverb2_on, m.current_reverb2,
                           d2 /= None /\ IsNewlyPressed(m, current_buttons, 5))
    IN  [mixer |-> [last_button_states |-> current_buttons,
                    reverb1_on |-> r1.on,
                    reverb2_on |-> r2.on,
                    current_reverb1 |-> r1.level,
                    current_reverb2 |-> r2.level],
         deck1 |-> v1.self,
         deck2 |-> IF d2 /= None THEN Some(v2.self) ELSE None,
         vol1 |-> v1.write,
         vol2 |-> v2.write,
         reverb1 |-> r1.write,
         reverb2 |-> r2.write]

NewMixer ==
    [last_button_states |-> {},
     reverb1_on |-> FALSE,
     reverb2_on |-> FALSE,
     current_reverb1 |-> Zero,
     current_reverb2 |-> Zero]

\* the state DJMixer.__init__ leaves: _build_pipeline, then _init_encoders.
\* With use_dual_encoders deck 2 gets an EncoderReader of its own; otherwise
\* encoder2 is encoder1.
MixerConstructedWith(dual_deck_mode, use_dual_encoders) ==
    /\ hostNow = 0
    /\ devNow = 0
    /\ reader = NewReader
    /\ reader2 = IF dual_deck_mode /\ use_dual_encoders THEN Some(NewReader) ELSE None
    /\ deck1 = NewDeck(1, IF dual_deck_mode THEN Some("sink_pad_1") ELSE None)
    /\ deck2 = IF dual_deck_mode THEN Some(NewDeck(2, Some("sink_pad_2"))) ELSE None
    /\ sink = [rate1 |-> One, rate2 |-> One, vol1 |-> One, vol2 |-> One,
               reverb1 |-> Zero, reverb2 |-> Zero]
    /\ tick = [n |-> 0, result |-> "none", sink_failures |-> 0,
               scheduled |-> TRUE, writes |-> {}, held |-> {}]
    /\ mixer = NewMixer
    /\ calls = <<>>
    /\ PlayerConstructed
    /\ TokenServerLoaded

\* DJMixer(file_path1, file_path2, use_dual_encoders=False), as main() calls it
MixerConstructed(dual_deck_mode) == MixerConstructedWith(dual_deck_mode, FALSE)

EstimatorsIdle ==
    /\ tracker = NewTracker
    /\ smoother = NewSmoother
    /\ fed = <<>>
    /\ outs = <<>>

Init ==
    /\ EstimatorsIdle
    /\ cfg = ShippedConfig
    /\ \E dual_deck_mode \in BOOLEAN : MixerConstructed(dual_deck_mode)

\* what one packet can hold, relative to the packet before
Enc1Moves == {-2, 0, 5}
Enc2Moves == {-2, 0}
NoButtons == {{}}
RaisingDecks == {0, 1, 2}

\* variant of ReturnAfterReadFailed: a failed read stops the timer
ReturnFalse == FALSE

\* the value _on_i2c_update returns to GLib: True keeps the timer running
ReturnAfterReadFailed == TRUE
ReturnAtEnd == TRUE

\* the element whose property a call of set_property named (w is None when
\* no call was made)
Named(name, w) == IF w /= None THEN {name} ELSE {}

\* variant of SharedSample: deck 2 is handed a sample with the encoders swapped
SharedSampleSwapped(data1) ==
    [data1 EXCEPT !.enc1_position = data1.enc2_position,
                  !.enc1_velocity = data1.enc2_velocity,
                  !.enc2_position = data1.enc1_position,
                  !.enc2_velocity = data1.enc1_velocity]

\* shared-encoder mode: deck2.process_encoder_data(data1), the dict deck 1 got
SharedSample(data1) == data1

\* variant of Written: the element ignores the value
WrittenDropped(old, w) == old

\* the sink after a property was written (w is None or the value written)
Written(old, w) == IF w /= None THEN w[1] ELSE old

\* _on_i2c_update when deck1.encoder.read() returns None
TickReadFailed ==
    /\ tick.scheduled
    /\ tick.n < MaxTicks
    /\ reader.read_errors < MaxReadErrors
    /\ hostNow' = hostNow + I2C_POLL_RATE_MS
    /\ devNow' = devNow + I2C_POLL_RATE_MS
    /\ reader' = ReadRawDataFailed(reader)
    /\ tick' = [tick EXCEPT !.n = @ + 1, !.result = "read_failed",
                            !.scheduled = ReturnAfterReadFailed, !.writes = {},
                            !.held = {}]
    /\ UNCHANGED <<cfg, reader2, deck1, deck2, sink, mixer, calls, estVars,
                   playVars, tokVars>>

\* _on_i2c_update when the read succeeds, on a packet whose encoder moves are
\* drawn from moves1, moves2 and whose pressed buttons from buttons.  raises
\* names the deck whose tempo set_property call raises on this tick (0: none);
\* the exception ends the try block, so what follows in it does not run.
TickProcessedWith(moves1, moves2, buttons, raising) ==
    /\ tick.scheduled
    /\ tick.n < MaxTicks
    /\ \E m1 \in moves1, m2 \in moves2, current_buttons \in buttons, raises \in raising :
       \E rd \in {Read(reader, reader.last_enc1_position + m1,
                         reader.last_enc2_position + m2,
                         devNow + I2C_POLL_RATE_MS, hostNow + I2C_POLL_RATE_MS)} :
       \E p1 \in {ProcessEncoderData(deck1, rd.ret)} :
       \E bt \in {ProcessButtonData(mixer, p1.self, deck2, current_buttons)} :
       \E p2 \in {IF deck2 /= None
                   THEN ProcessEncoderData(bt.deck2[1], SharedSample(rd.ret))
                   ELSE NoCall} :
         LET now == hostNow + I2C_POLL_RATE_MS
             timestamp == devNow + I2C_POLL_RATE_MS
             raised1 == p1.write /= None /\ raises = 1
             runs2 == deck2 /= None /\ ~raised1
             raised2 == runs2 /\ p2.write /= None /\ raises = 2
         IN  /\ raises /= 0 => tick.sink_failures < MaxSinkFailures
             /\ raises = 1 => p1.write /= None
             /\ raises = 2 => runs2 /\ p2.write /= None
             /\ hostNow' = now
             /\ devNow' = timestamp
             /\ reader' = rd.self
             /\ deck1' = IF raised1 THEN p1.self ELSE bt.deck1
             /\ deck2' = IF runs2 THEN Some(p2.self) ELSE deck2
             /\ mixer' = IF raised1 THEN mixer ELSE bt.mixer
             /\ sink' = IF raised1 THEN sink
                        ELSE [rate1 |-> Written(sink.rate1, p1.write),
                              rate2 |-> IF runs2 /\ ~raised2
                                        THEN Written(sink.rate2, p2.write)
                                        ELSE sink.rate2,
                              vol1 |-> Written(sink.vol1, bt.vol1),
                              vol2 |-> Written(sink.vol2, bt.vol2),
                              reverb1 |-> Written(sink.reverb1, bt.reverb1),
                              reverb2 |-> Written(sink.reverb2, bt.reverb2)]
             /\ tick' = [n |-> tick.n + 1,
                         result |-> IF raised1 \/ raised2 THEN "exception" ELSE "ok",
                         sink_failures |-> tick.sink_failures
                                           + (IF raised1 \/ raised2 THEN 1 ELSE 0),
                         scheduled |-> ReturnAtEnd,
                         writes |-> Named("rate1", p1.write)
                                    \cup (IF raised1 THEN {} ELSE
                                          Named("vol1", bt.vol1)
                                          \cup Named("vol2", bt.vol2)
                                          \cup Named("reverb1", bt.reverb1)
                                          \cup Named("reverb2", bt.reverb2)
                                          \cup (IF runs2 THEN Named("rate2", p2.write)
                                                         ELSE {})),
                         held |-> IF raised1 THEN {}
                                  ELSE current_buttons \cap mixer.last_button_states]
    /\ UNCHANGED <<cfg, reader2, calls, estVars, playVars, tokVars>>

\* the polling loop on packets that carry no pressed button
TickProcessed == TickProcessedWith(Enc1Moves, Enc2Moves, NoButtons, RaisingDecks)

Next == TickReadFailed \/ TickProcessed

Spec == Init /\ [][Next]_vars

(***************************************************************************)
(* The polling loop in dual-encoder mode: each deck has its own reader.    *)
(* Deck 1 reads enc1_velocity of the first device's packet, deck 2         *)
(* enc2_velocity of the second device's packet.                            *)
(***************************************************************************)
DualEnc1Moves == {-2, 0}
DualEnc2Moves == {-2, 0}

InitDual ==
    /\ EstimatorsIdle
    /\ cfg = ShippedConfig
    /\ MixerConstructedWith(TRUE, TRUE)

\* variant of Deck2Step: without a second packet deck 2 is fed its newest
\* sample again
Deck2StepRepeating(self, data2) ==
    IF data2 /= None
    THEN ProcessEncoderData(self, data2[1])
    ELSE IF self.encoder_read_history /= <<>>
         THEN ProcessEncoderData(
                  self, self.encoder_read_history[Len(self.encoder_read_history)])
         ELSE [self |-> self, write |-> None]

\* `if data2: self.deck2.process_encoder_data(data2)`; data2 is None when the
\* second device's read failed
Deck2Step(self, data2) ==
    IF data2 /= None
    THEN ProcessEncoderData(self, data2[1])
    ELSE [self |-> self, write |-> None]

\* _on_i2c_update in dual-encoder mode when deck1.encoder.read() succeeds.
\* read2_fails: deck2.encoder.read() returns None.  raises names the deck
\* whose tempo set_property call raises on this tick (0: none); when deck 1's
\* raises, the second device is not polled.
TickDual ==
    /\ tick.scheduled
    /\ tick.n < MaxTicks
    /\ reader2 /= None
    /\ \E m1 \in DualEnc1Moves, m2 \in DualEnc2Moves, raises \in RaisingDecks,
          read2_fails \in BOOLEAN :
       \E rd \in {Read(reader, reader.last_enc1_position + m1,
                         reader.last_enc2_position,
                         devNow + I2C_POLL_RATE_MS, hostNow + I2C_POLL_RATE_MS)} :
       \E p1 \in {ProcessEncoderData(deck1, rd.ret)} :
       \E bt \in {ProcessButtonData(mixer, p1.self, deck2, {})} :
       \E rd2 \in {Read(reader2[1], reader2[1].last_enc1_position,
                          reader2[1].last_enc2_position + m2,
                          devNow + I2C_POLL_RATE_MS, hostNow + I2C_POLL_RATE_MS)} :
       \E p2 \in {Deck2Step(bt.deck2[1],
                             IF read2_fails THEN None ELSE Some(rd2.ret))} :
         LET raised1 == p1.write /= None /\ raises = 1
             raised2 == ~raised1 /\ p2.write /= None /\ raises = 2
         IN  /\ raises /= 0 => tick.sink_failures < MaxSinkFailures
             /\ raises = 1 => p1.write /= None /\ ~read2_fails /\ m2 = 0
             /\ raises = 2 => p2.write /= None
             /\ read2_fails => reader2[1].read_errors < MaxReadErrors /\ m2 = 0
             /\ hostNow' = hostNow + I2C_POLL_RATE_MS
             /\ devNow' = devNow + I2C_POLL_RATE_MS
             /\ reader' = rd.self
             /\ reader2' = IF raised1 THEN reader2
                           ELSE IF read2_fails THEN Some(ReadRawDataFailed(reader2[1]))
                           ELSE Some(rd2.self)
             /\ deck1' = IF raised1 THEN p1.self ELSE bt.deck1
             /\ deck2' = IF raised1 THEN deck2 ELSE Some(p2.self)
             /\ mixer' = IF raised1 THEN mixer ELSE bt.mixer
             /\ sink' = IF raised1 THEN sink
                        ELSE [sink EXCEPT
                                !.rate1 = Written(sink.rate1, p1.write),
                                !.rate2 = IF raised2 THEN sink.rate2
                                          ELSE Written(sink.rate2, p2.write)]
             /\ tick' = [n |-> tick.n + 1,
                         result |-> IF raised1 \/ raised2 THEN "exception"
                                    ELSE IF read2_fails THEN "deck2_skipped"
                                    ELSE "ok",
                         sink_failures |-> tick.sink_failures
                                           + (IF raised1 \/ raised2 THEN 1 ELSE 0),
                         scheduled |-> ReturnAtEnd,
                         writes |-> Named("rate1", p1.write)
                                    \cup (IF raised1 THEN {}
                                          ELSE Named("rate2", p2.write)),
                         held |-> {}]
    /\ UNCHANGED <<cfg, calls, estVars, playVars, tokVars>>

NextDual == TickReadFailed \/ TickDual

SpecDual == InitDual /\ [][NextDual]_vars

(***************************************************************************)
(* Stand-alone estimators fed a stream of samples.                         *)
(***************************************************************************)
Positions == {0, 5, 12}

\* how far the device clock and the host clock advance between two samples
ClockSteps ==
    {[dev |-> I2C_POLL_RATE_MS, host |-> I2C_POLL_RATE_MS],
     [dev |-> I2C_POLL_RATE_MS, host |-> VELOCITY_TIMEOUT_MS + 1],
     [dev |-> 1, host |-> I2C_POLL_RATE_MS],
     [dev |-> 0, host |-> VELOCITY_TIMEOUT_MS + 1]}

NextSample(position, step) ==
    IF fed = <<>>
    THEN [position |-> position, timestamp |-> 0, arrival |-> 0]
    ELSE [position |-> position,
          timestamp |-> fed[Len(fed)].timestamp + step.dev,
          arrival |-> fed[Len(fed)].arrival + step.host]

InitEstimator ==
    /\ tracker = NewTracker
    /\ smoother = NewSmoother
    /\ fed = <<>>
    /\ outs = <<>>
    /\ cfg = ShippedConfig
    /\ MixerConstructed(FALSE)

TrackerFeed ==
    /\ Len(fed) < MaxSamples
    /\ \E position \in Positions, step \in ClockSteps :
         LET smp == NextSample(position, step)
             r == TrackerUpdate(tracker, smp.position, smp.timestamp, smp.arrival)
         IN  /\ tracker' = r.self
             /\ fed' = Append(fed, smp)
             /\ outs' = Append(outs, r.ret)
    /\ UNCHANGED <<smoother, mixVars>>

SmootherFeed ==
    /\ Len(fed) < MaxSamples
    /\ \E position \in Positions, step \in ClockSteps :
         LET smp == NextSample(position, step)
             r == SmootherUpdate(smoother, smp.position, smp.timestamp)
         IN  /\ smoother' = r.self
             /\ fed' = Append(fed, smp)
             /\ outs' = Append(outs, r.ret)
    /\ UNCHANGED <<tracker, mixVars>>

SpecTracker == InitEstimator /\ [][TrackerFeed]_vars
SpecSmoother == InitEstimator /\ [][SmootherFeed]_vars

(***************************************************************************)
(* A tracker and a smoother fed the same samples side by side, and reset   *)
(* together.  The device timestamp may be repeated or run backwards.  fed  *)
(* records the calls: a sample, or reset |-> TRUE for the two reset()      *)
(* calls; outs records what the calls returned (reset returns None).       *)
(***************************************************************************)
EstPositions == {0, 5}
EstClockSteps ==
    {[dev |-> I2C_POLL_RATE_MS, host |-> I2C_POLL_RATE_MS],
     [dev |-> 1, host |-> I2C_POLL_RATE_MS],
     [dev |-> 0, host |-> I2C_POLL_RATE_MS],
     [dev |-> -I2C_POLL_RATE_MS, host |-> I2C_POLL_RATE_MS]}

SamplesFed == Cardinality({i \in DOMAIN fed : ~fed[i].reset})
ResetsMade == Cardinality({i \in DOMAIN fed : fed[i].reset})

\* tracker.update(position, timestamp) and smoother.update(position, timestamp)
EstimatorsFeed ==
    /\ SamplesFed < MaxFeeds
    /\ \E position \in EstPositions, step \in EstClockSteps :
         LET smp == NextSample(position, step)
             rt == TrackerUpdate(tracker, smp.position, smp.timestamp, smp.arrival)
             rs == SmootherUpdate(smoother, smp.position, smp.timestamp)
         IN  /\ tracker' = rt.self
             /\ smoother' = rs.self
             /\ fed' = Append(fed, [position |-> smp.position,
                                    timestamp |-> smp.timestamp,
                                    arrival |-> smp.arrival,
                                    reset |-> FALSE])
             /\ outs' = Append(outs, [tracker |-> rt.ret, smoother |-> rs.ret])
    /\ UNCHANGED mixVars

\* tracker.reset() and smoother.reset(), called after an update
EstimatorsReset ==
    /\ ResetsMade < MaxResets
    /\ fed /= <<>>
    /\ ~fed[Len(fed)].reset
    /\ tracker' = TrackerReset(tracker)
    /\ smoother' = SmootherReset(smoother)
    /\ fed' = Append(fed, [fed[Len(fed)] EXCEPT !.reset = TRUE])
    /\ outs' = Append(outs, [tracker |-> None, smoother |-> None])
    /\ UNCHANGED mixVars

NextEstimators == EstimatorsFeed \/ EstimatorsReset

SpecEstimators == InitEstimator /\ [][NextEstimators]_vars

(***************************************************************************)
(* The loop started under any configuration: neither DJDeck.__init__ nor   *)
(* DJMixer.__init__ looks at the thresholds.                               *)
(***************************************************************************)
Configs ==
    {ShippedConfig,
     [ShippedConfig EXCEPT !.NORMAL_SPEED_MIN = -80, !.NORMAL_SPEED_MAX = -120],
     [ShippedConfig EXCEPT !.MIN_PLAYBACK_RATE = FromInt(3), !.MAX_PLAYBACK_RATE = Zero]}

InitConfig ==
    /\ EstimatorsIdle
    /\ cfg \in Configs
    /\ \E dual_deck_mode \in BOOLEAN : MixerConstructed(dual_deck_mode)

SpecConfig == InitConfig /\ [][Next]_vars

(***************************************************************************)
(* The polling loop on packets with pressed buttons.                       *)
(***************************************************************************)
ButtonMoves == {-2, 5}
ButtonInputs == {{}, {1}, {0, 4}, {1, 4}, {3, 5}}
ButtonRaisingDecks == {0, 1}

TickButtons == TickProcessedWith(ButtonMoves, {0}, ButtonInputs, ButtonRaisingDecks)

NextButtons == TickReadFailed \/ TickButtons

SpecButtons == Init /\ [][NextButtons]_vars

(***************************************************************************)
(* One DJDeck under any sequence of calls of its public methods.  calls    *)
(* records each call: the deck before and after it, the sinks before it,   *)
(* the tempo and the volume it handed to set_property (None: no call of    *)
(* set_property), and whether the tempo set_property raised.               *)
(***************************************************************************)
DeckVelocities ==
    {<<-300, 1>>, <<-100, 1>>, <<-197, 2>>, <<50, 1>>, <<101, 2>>, <<100, 1>>, <<250, 1>>}
SetVolumeArgs == {<<-1, 2>>, <<1, 2>>, <<19, 20>>, <<3, 2>>}
AdjustVolumeArgs == {<<1, 10>>, <<-1, 10>>, <<1, 2000>>}
SetControlModeArgs == {"turntable", "scratch"}

DeckSample(velocity, timestamp) ==
    [enc1_position |-> 0, enc1_velocity |-> velocity,
     enc2_position |-> 0, enc2_velocity |-> Zero,
     timestamp |-> timestamp]

Call(op, arg, after, tempo, volume, raised) ==
    [op |-> op, arg |-> arg, before |-> deck1, after |-> after, sink |-> sink,
     tempo |-> tempo, volume |-> volume, raised |-> raised]

RaisedCalls == Cardinality({i \in DOMAIN calls : calls[i].raised})

InitDeck ==
    /\ EstimatorsIdle
    /\ cfg = ShippedConfig
    /\ \E dual_deck_mode \in BOOLEAN : MixerConstructed(dual_deck_mode)

\* nothing but the deck, its sinks and the record of calls changes
DeckFrame ==
    UNCHANGED <<cfg, hostNow, devNow, reader, reader2, deck2, tick, mixer, estVars,
                playVars, tokVars>>

\* process_encoder_data(None)
DeckProcessNone ==
    /\ Len(calls) < MaxCalls
    /\ calls' = Append(calls, Call("process_encoder_data", None, deck1, None, None, FALSE))
    /\ UNCHANGED <<deck1, sink>>
    /\ DeckFrame

\* process_encoder_data(data), on a sample whose velocity is drawn from
\* velocities; raising holds whether the tempo set_property call may raise
DeckProcessWith(velocities, raising, limit) ==
    /\ Len(calls) < limit
    /\ \E velocity \in velocities, raises \in raising :
         LET data == DeckSample(velocity, (Len(calls) + 1) * I2C_POLL_RATE_MS)
             p == ProcessEncoderData(deck1, data)
         IN  /\ raises => p.write /= None /\ RaisedCalls < MaxSinkFailures
             /\ deck1' = p.self
             /\ sink' = IF raises THEN sink
                        ELSE [sink EXCEPT !.rate1 = Written(@, p.write)]
             /\ calls' = Append(calls, Call("process_encoder_data", Some(data),
                                            p.self, p.write, None, raises))
    /\ DeckFrame

DeckProcess == DeckProcessWith(DeckVelocities, BOOLEAN, MaxCalls)

\* set_volume(volume)
DeckSetVolume ==
    /\ Len(calls) < MaxCalls
    /\ \E volume \in SetVolumeArgs :
         LET r == SetVolume(deck1, volume)
         IN  /\ deck1' = r.self
             /\ sink' = [sink EXCEPT !.vol1 = Written(@, r.write)]
             /\ calls' = Append(calls, Call("set_volume", volume, r.self,
                                            None, r.write, FALSE))
    /\ DeckFrame

\* adjust_volume(delta)
DeckAdjustVolume ==
    /\ Len(calls) < MaxCalls
    /\ \E delta \in AdjustVolumeArgs :
         LET r == AdjustVolume(deck1, delta)
         IN  /\ deck1' = r.self
             /\ sink' = [sink EXCEPT !.vol1 = Written(@, r.write)]
             /\ calls' = Append(calls, Call("adjust_volume", delta, r.self,
                                            None, r.write, FALSE))
    /\ DeckFrame

\* set_control_mode(mode)
DeckSetControlMode ==
    /\ Len(calls) < MaxCalls
    /\ \E mode \in SetControlModeArgs :
         LET after == SetControlMode(deck1, mode)
         IN  /\ deck1' = after
             /\ calls' = Append(calls, Call("set_control_mode", mode, after,
                                            None, None, FALSE))
    /\ UNCHANGED sink
    /\ DeckFrame

NextDeck ==
    \/ DeckProcessNone
    \/ DeckProcess
    \/ DeckSetVolume
    \/ DeckAdjustVolume
    \/ DeckSetControlMode

SpecDeck == InitDeck /\ [][NextDeck]_vars

(***************************************************************************)
(* One DJDeck fed a platter speed: samples in the normal band and samples  *)
(* outside it, no sink failure.                                            *)
(***************************************************************************)
SpikeVelocities == {<<-100, 1>>, <<-90, 1>>, <<-130, 1>>, <<-300, 1>>, <<250, 1>>}

SpikeProcess == DeckProcessWith(SpikeVelocities, {FALSE}, MaxSpikeCalls)

SpecSpike == InitDeck /\ [][SpikeProcess]_vars

(***************************************************************************)
(* The single-song Player (play_song.py).  Two threads share self.pipeline *)
(* without a lock: the thread that calls play_song, pause, resume and stop,*)
(* and the main-loop thread that runs _on_bus_message.  Each action is one *)
(* read or write of self.pipeline, or one call on the pipeline it read;    *)
(* line is the source line the thread executes next.  A pipeline is known  *)
(* by its index in gst.  Setting a pipeline to NULL flushes its bus, so an *)
(* End-of-Stream message still queued is dropped; one already handed to    *)
(* the callback is not.  self.pipeline.f(...) on None raises               *)
(* AttributeError, which ends the method.                                  *)
(***************************************************************************)
PlayerFrame == UNCHANGED <<estVars, ctlVars, tokVars>>

\* Gst.ElementFactory.make("playbin", "player"): a new element is in NULL
NewPipeline == [state |-> "NULL", eos |-> "none"]

\* pipeline.set_state(state) on pipeline id
SetState(g, id, state) ==
    [g EXCEPT ![id] = [state |-> state,
                       eos |-> IF state = "NULL" /\ @.eos = "queued"
                               THEN "flushed" ELSE @.eos]]

\* pipeline.get_state(Gst.CLOCK_TIME_NONE).state
GetState(g, id) == g[id].state

Enter(op, line) == [op |-> op, line |-> line, raised |-> FALSE]
Goto(line) == [callerAt EXCEPT !.line = line]
Raise == [op |-> "none", line |-> 0, raised |-> TRUE]

CallerIn(op, line) == callerAt.op = op /\ callerAt.line = line

\* play_song(song_path) is called with the path of an existing file
PlaySongCall ==
    /\ callerAt.op = "none"
    /\ Len(gst) < MaxPipelines
    /\ callerAt' = Enter("play_song", 59)
    /\ UNCHANGED <<player, gst, loopAt>>
    /\ PlayerFrame

\* line 59: if self.pipeline:
PlaySong59 ==
    /\ CallerIn("play_song", 59)
    /\ callerAt' = IF player.pipeline /= None THEN Goto(61) ELSE Goto(68)
    /\ UNCHANGED <<player, gst, loopAt>>
    /\ PlayerFrame

\* line 61: self.pipeline.set_state(Gst.State.NULL)
PlaySong61 ==
    /\ CallerIn("play_song", 61)
    /\ IF player.pipeline = None
       THEN callerAt' = Raise /\ gst' = gst
       ELSE callerAt' = Goto(62) /\ gst' = SetState(gst, player.pipeline[1], "NULL")
    /\ UNCHANGED <<player, loopAt>>
    /\ PlayerFrame

\* line 62: self.pipeline = None
PlaySong62 ==
    /\ CallerIn("play_song", 62)
    /\ player' = [player EXCEPT !.pipeline = None]
    /\ callerAt' = Goto(68)
    /\ UNCHANGED <<gst, loopAt>>
    /\ PlayerFrame

\* line 68: self.pipeline = Gst.ElementFactory.make("playbin", "player")
PlaySong68 ==
    /\ CallerIn("play_song", 68)
    /\ gst' = Append(gst, NewPipeline)
    /\ player' = [player EXCEPT !.pipeline = Some(Len(gst) + 1)]
    /\ callerAt' = Goto(69)
    /\ UNCHANGED loopAt
    /\ PlayerFrame

\* line 69: if not self.pipeline: return
PlaySong69 ==
    /\ CallerIn("play_song", 69)
    /\ callerAt' = IF player.pipeline = None THEN Outside ELSE Goto(75)
    /\ UNCHANGED <<player, gst, loopAt>>
    /\ PlayerFrame

\* lines 75-80: self.pipeline.set_property("uri", uri); the bus watch
PlaySong75 ==
    /\ CallerIn("play_song", 75)
    /\ callerAt' = IF player.pipeline = None THEN Raise ELSE Goto(84)
    /\ UNCHANGED <<player, gst, loopAt>>
    /\ PlayerFrame

\* line 84: self.pipeline.set_state(Gst.State.PLAYING)
PlaySong84 ==
    /\ CallerIn("play_song", 84)
    /\ IF player.pipeline = None
       THEN callerAt' = Raise /\ gst' = gst
       ELSE callerAt' = Outside /\ gst' = SetState(gst, player.pipeline[1], "PLAYING")
    /\ UNCHANGED <<player, loopAt>>
    /\ PlayerFrame

\* `if self.pipeline and self.pipeline.get_state(...).state == wanted:` of
\* pause (line 88) and resume (line 94)
StateIs(wanted) ==
    player.pipeline /= None /\ GetState(gst, player.pipeline[1]) = wanted

\* pause(), line 88
Pause88 ==
    /\ callerAt.op = "none"
    /\ callerAt' = IF StateIs("PLAYING") THEN Enter("pause", 90) ELSE Outside
    /\ UNCHANGED <<player, gst, loopAt>>
    /\ PlayerFrame

\* pause(), line 90: self.pipeline.set_state(Gst.State.PAUSED)
Pause90 ==
    /\ CallerIn("pause", 90)
    /\ IF player.pipeline = None
       THEN callerAt' = Raise /\ gst' = gst
       ELSE callerAt' = Outside /\ gst' = SetState(gst, player.pipeline[1], "PAUSED")
    /\ UNCHANGED <<player, loopAt>>
    /\ PlayerFrame

\* resume(), line 94
Resume94 ==
    /\ callerAt.op = "none"
    /\ callerAt' = IF StateIs("PAUSED") THEN Enter("resume", 96) ELSE Outside
    /\ UNCHANGED <<player, gst, loopAt>>
    /\ PlayerFrame

\* resume(), line 96: self.pipeline.set_state(Gst.State.PLAYING)
Resume96 ==
    /\ CallerIn("resume", 96)
    /\ IF player.pipeline = None
       THEN callerAt' = Raise /\ gst' = gst
       ELSE callerAt' = Outside /\ gst' = SetState(gst, player.pipeline[1], "PLAYING")
    /\ UNCHANGED <<player, loopAt>>
    /\ PlayerFrame

\* stop(), line 101: if self.pipeline:
Stop101 ==
    /\ callerAt.op = "none"
    /\ player.loop_running
    /\ callerAt' = IF player.pipeline /= None THEN Enter("stop", 102)
                                              ELSE Enter("stop", 104)
    /\ UNCHANGED <<player, gst, loopAt>>
    /\ PlayerFrame

\* stop(), line 102: self.pipeline.set_state(Gst.State.NULL)
Stop102 ==
    /\ CallerIn("stop", 102)
    /\ IF player.pipeline = None
       THEN callerAt' = Raise /\ gst' = gst
       ELSE callerAt' = Goto(103) /\ gst' = SetState(gst, player.pipeline[1], "NULL")
    /\ UNCHANGED <<player, loopAt>>
    /\ PlayerFrame

\* stop(), line 103: self.pipeline = None
Stop103 ==
    /\ CallerIn("stop", 103)
    /\ player' = [player EXCEPT !.pipeline = None]
    /\ callerAt' = Goto(104)
    /\ UNCHANGED <<gst, loopAt>>
    /\ PlayerFrame

\* stop(), lines 104-105: self.loop.quit()
Stop104 ==
    /\ CallerIn("stop", 104)
    /\ player' = [player EXCEPT !.loop_running = FALSE]
    /\ callerAt' = Outside
    /\ UNCHANGED <<gst, loopAt>>
    /\ PlayerFrame

\* a PLAYING pipeline reaches the end of its file: its streaming thread posts
\* End-of-Stream on its bus
StreamEnds ==
    /\ \E id \in DOMAIN gst :
         /\ gst[id].state = "PLAYING"
         /\ gst[id].eos = "none"
         /\ gst' = [gst EXCEPT ![id].eos = "queued"]
    /\ UNCHANGED <<player, callerAt, loopAt>>
    /\ PlayerFrame

\* the main loop hands a queued End-of-Stream message to _on_bus_message,
\* which runs up to line 35
BusMessageEos ==
    /\ player.loop_running
    /\ loopAt.line = 0
    /\ \E id \in DOMAIN gst :
         /\ gst[id].eos = "queued"
         /\ gst' = [gst EXCEPT ![id].eos = "handled"]
         /\ loopAt' = [line |-> 36, src |-> id]
    /\ UNCHANGED <<player, callerAt>>
    /\ PlayerFrame

\* _on_bus_message, line 36: if self.pipeline:
OnBusMessage36 ==
    /\ loopAt.line = 36
    /\ loopAt' = IF player.pipeline /= None THEN [loopAt EXCEPT !.line = 37]
                                            ELSE [loopAt EXCEPT !.line = 0]
    /\ UNCHANGED <<player, gst, callerAt>>
    /\ PlayerFrame

\* _on_bus_message, line 37: self.pipeline.set_state(Gst.State.NULL)
OnBusMessage37 ==
    /\ loopAt.line = 37
    /\ IF player.pipeline = None
       THEN loopAt' = [loopAt EXCEPT !.line = 0] /\ gst' = gst
       ELSE /\ loopAt' = [loopAt EXCEPT !.line = 38]
            /\ gst' = SetState(gst, player.pipeline[1], "NULL")
    /\ UNCHANGED <<player, callerAt>>
    /\ PlayerFrame

\* _on_bus_message, line 38: self.pipeline = None
OnBusMessage38 ==
    /\ loopAt.line = 38
    /\ player' = [player EXCEPT !.pipeline = None]
    /\ loopAt' = [loopAt EXCEPT !.line = 0]
    /\ UNCHANGED <<gst, callerAt>>
    /\ PlayerFrame

InitPlayer ==
    /\ EstimatorsIdle
    /\ cfg = ShippedConfig
    /\ MixerConstructed(FALSE)

NextPlayer ==
    \/ PlaySongCall \/ PlaySong59 \/ PlaySong61 \/ PlaySong62 \/ PlaySong68
    \/ PlaySong69 \/ PlaySong75 \/ PlaySong84
    \/ Pause88 \/ Pause90 \/ Resume94 \/ Resume96
    \/ Stop101 \/ Stop102 \/ Stop103 \/ Stop104
    \/ StreamEnds \/ BusMessageEos
    \/ OnBusMessage36 \/ OnBusMessage37 \/ OnBusMessage38

SpecPlayer == InitPlayer /\ [][NextPlayer]_vars

(***************************************************************************)
(* The Spotify token cache (server.py; spotify_token_server.py holds the   *)
(* same function).  Times are whole seconds.  A token is known by its      *)
(* index in spotify, which records when Spotify issued it and for how long *)
(* it is valid.                                                            *)
(***************************************************************************)
\* seconds between one call and the next
Elapsed == {0, 1, 59, 3480, 3539}
\* seconds the request to Spotify takes
Latencies == {0, 2}
\* token_data["expires_in"]
ExpiresIn == {30, 3600}

\* variant of ExpiresAt: no safety margin
ExpiresAtNoMargin(now, expires_in) == now + expires_in

\* now + token_data["expires_in"] - 60
ExpiresAt(now, expires_in) == now + expires_in - TOKEN_MARGIN

\* TOKEN_CACHE["access_token"] and now < TOKEN_CACHE["expires_at"]
CacheFresh(cache, now) == cache.access_token /= None /\ now < cache.expires_at

TokenFrame == UNCHANGED <<estVars, ctlVars, playVars>>

\* get_spotify_token(), called elapsed seconds after the call before it.
\* ok: requests.post returns and raise_for_status passes; otherwise one of
\* them raises and the function is left at line 109 or 110.
GetSpotifyToken ==
    /\ served.n < MaxTokenCalls
    /\ \E elapsed \in Elapsed, latency \in Latencies, ok \in BOOLEAN,
          expires_in \in ExpiresIn :
         LET now == unixTime + elapsed
         IN  /\ unixTime' = now
             /\ IF CacheFresh(TOKEN_CACHE, now)
                THEN /\ latency = 0 /\ ok /\ expires_in = 3600
                     /\ served' = [n |-> served.n + 1, hits |-> served.hits + 1,
                                   token |-> TOKEN_CACHE.access_token,
                                   fetched |-> FALSE, raised |-> FALSE, now |-> now]
                     /\ UNCHANGED <<TOKEN_CACHE, spotify>>
                ELSE IF ok
                THEN /\ spotify' = Append(spotify, [issued_at |-> now + latency,
                                                    expires_in |-> expires_in])
                     /\ TOKEN_CACHE' = [access_token |-> Some(Len(spotify) + 1),
                                        expires_at |-> ExpiresAt(now, expires_in)]
                     /\ served' = [n |-> served.n + 1, hits |-> served.hits,
                                   token |-> Some(Len(spotify) + 1),
                                   fetched |-> TRUE, raised |-> FALSE, now |-> now]
                ELSE /\ expires_in = 3600
                     /\ served' = [n |-> served.n + 1, hits |-> served.hits,
                                   token |-> None,
                                   fetched |-> TRUE, raised |-> TRUE, now |-> now]
                     /\ UNCHANGED <<TOKEN_CACHE, spotify>>
    /\ TokenFrame

InitToken ==
    /\ EstimatorsIdle
    /\ cfg = ShippedConfig
    /\ MixerConstructed(FALSE)

SpecToken == InitToken /\ [][GetSpotifyToken]_vars

(***************************************************************************)
(* Properties                                                              *)
(***************************************************************************)
RLe(x, y) == ~RLt(y, x)

Decks == {deck1} \cup (IF deck2 = None THEN {} ELSE {deck2[1]})

Velocities(d) ==
    [i \in 1..Len(d.encoder_read_history) |-> VelocityOf(d, d.encoder_read_history[i])]

SinkRateOf(d) == IF d.deck_id = 1 THEN sink.rate1 ELSE sink.rate2

HistoryFullInBand(d) ==
    /\ Len(d.encoder_read_history) = maxlen
    /\ \A i \in 1..maxlen : InNormalBand(Velocities(d)[i])

\* C1: once the whole retained history of a deck (maxlen consecutive processed
\* samples) has its velocity estimates strictly inside the normal band, the deck
\* is in NORMAL_SPEED and its current rate is exactly 1.0, whatever came before.
C1_Convergence ==
    \A d \in Decks :
        HistoryFullInBand(d) => d.state = "NORMAL_SPEED" /\ d.current_rate = One

\* C1 witness: deck 1 holds a full in-band history after an out-of-band first
\* sample (estimate 0) was evicted from it.
C1_Witness ==
    /\ HistoryFullInBand(deck1)
    /\ reader.total_reads > maxlen
    /\ deck1.state = "NORMAL_SPEED"

\* C2: whenever a deck is in MODULATING_SPEED, the tempo its rate sink holds is
\* in [max(MIN_PLAYBACK_RATE, 0.01), MAX_PLAYBACK_RATE], so never 0 or negative.
C2_BoundedOutputRate ==
    \A d \in Decks :
        d.state = "MODULATING_SPEED" =>
            /\ RLe(RMax(cfg.MIN_PLAYBACK_RATE, TEMPO_FLOOR), SinkRateOf(d))
            /\ RLe(SinkRateOf(d), cfg.MAX_PLAYBACK_RATE)

\* C2 witness: deck 1 modulating with a computed rate of 0.0, the sink holding
\* the floor 0.01.
C2_Witness ==
    /\ deck1.state = "MODULATING_SPEED"
    /\ deck1.current_rate = Zero
    /\ sink.rate1 = TEMPO_FLOOR

\* C3 (as claimed): a tick on which a sink write raises leaves the history,
\* the state and the current rate of both decks as they were before the tick.
C3_AllOrNothing ==
    [][(tick'.n /= tick.n /\ tick'.result = "exception")
          => (deck1' = deck1 /\ deck2' = deck2)]_vars

\* C4: a deck that has processed a sample is in NORMAL_SPEED exactly when the
\* mean of the velocity estimates in its retained history is strictly between
\* NORMAL_SPEED_MIN and NORMAL_SPEED_MAX, and in MODULATING_SPEED otherwise.
C4_StateRule ==
    \A d \in Decks :
        LET n == Len(d.encoder_read_history)
            total == RSum(Velocities(d))
            meanInBand == /\ RLt(FromInt(cfg.NORMAL_SPEED_MIN * n), total)
                          /\ RLt(total, FromInt(cfg.NORMAL_SPEED_MAX * n))
        IN  n > 0 => d.state = (IF meanInBand THEN "NORMAL_SPEED" ELSE "MODULATING_SPEED")

\* C4 witness: deck 1 is modulating although its newest estimate is inside the
\* band (the mean over the history is not), and had been in NORMAL_SPEED at
\* construction.
C4_Witness ==
    /\ Len(deck1.encoder_read_history) >= 2
    /\ InNormalBand(Velocities(deck1)[Len(deck1.encoder_read_history)])
    /\ deck1.state = "MODULATING_SPEED"

ScenarioFed ==
    <<[position |-> 0, timestamp |-> 0, arrival |-> 0],
      [position |-> 0, timestamp |-> 20, arrival |-> 20],
      [position |-> 5, timestamp |-> 40, arrival |-> 40],
      [position |-> 5, timestamp |-> 60, arrival |-> 60],
      [position |-> 12, timestamp |-> 80, arrival |-> 80]>>

IsPrefix(s, t) == Len(s) <= Len(t) /\ s = SubSeq(t, 1, Len(s))

\* C5 (as claimed): positions [0,0,5,5,12] at device timestamps
\* [0,20,40,60,80] ms give the velocities [0, 0, 250, 250, 350].
C5_ScenarioAsClaimed ==
    fed = ScenarioFed =>
        outs = <<Zero, Zero, FromInt(250), FromInt(250), FromInt(350)>>

\* C5 (amended): the same samples give [0, 0, 125, 125, 175]: each velocity is
\* measured over the device time since the previous position change.
C5_Scenario ==
    IsPrefix(fed, ScenarioFed) =>
        outs = SubSeq(<<Zero, Zero, FromInt(125), FromInt(125), FromInt(175)>>,
                      1, Len(fed))

\* C5 witness: the whole scenario has been fed.
C5_Witness == fed = ScenarioFed

SamePositionAfterTimeout(i) ==
    /\ fed[i].position = fed[i - 1].position
    /\ fed[i].arrival - fed[i - 1].arrival = VELOCITY_TIMEOUT_MS + 1

\* C6: a sample at the position of the sample before it, arriving
\* VELOCITY_TIMEOUT_MS + 1 ms later on the host clock, makes the predictive
\* tracker return 0.0.
C6_PredictiveTimeout ==
    \A i \in 2..Len(fed) : SamePositionAfterTimeout(i) => outs[i] = Zero

\* C6 witness: such a sample arrived while the tracker held a nonzero velocity.
C6_Witness ==
    \E i \in 2..Len(fed) : SamePositionAfterTimeout(i) /\ outs[i - 1] /= Zero

WindowSamePosition(i) ==
    /\ i >= window_size
    /\ \A j \in (i - window_size + 1)..i : fed[j].position = fed[i].position

WindowSpan(i) == fed[i].timestamp - fed[i - window_size + 1].timestamp

\* C7 (as claimed): once the window holds window_size samples of one position,
\* the smoother returns the velocity it returned for the sample before.
C7_StickyAsClaimed ==
    \A i \in 2..Len(fed) : WindowSamePosition(i) => outs[i] = outs[i - 1]

\* C7 (amended): once the window holds window_size samples of one position, the
\* smoother returns 0.0 when the window spans more than 1 ms of device time, and
\* the velocity it returned for the sample before when it spans 1 ms or less.
C7_Sticky ==
    \A i \in 2..Len(fed) :
        WindowSamePosition(i) =>
            outs[i] = IF WindowSpan(i) > 1 THEN Zero ELSE outs[i - 1]

\* C7 witness: a degenerate window that returned a nonzero last velocity, then a
\* window of one position spanning real time after a nonzero velocity.
C7_Witness ==
    /\ \E i \in 2..Len(fed) :
         WindowSamePosition(i) /\ WindowSpan(i) <= 1 /\ outs[i] /= Zero
    /\ \E i \in 2..Len(fed) :
         WindowSamePosition(i) /\ WindowSpan(i) > 1 /\ outs[i - 1] /= Zero

\* C8 (as claimed): the reported error rate is the number of failed polls over
\* the number of polls attempted.
C8_ErrorRate ==
    tick.n > 0 => GetErrorRate(reader) = Rat(reader.read_errors, tick.n)

Malformed(c) ==
    \/ c.NORMAL_SPEED_MIN >= c.NORMAL_SPEED_MAX
    \/ RLe(c.MAX_PLAYBACK_RATE, c.MIN_PLAYBACK_RATE)

\* C9 (as claimed): under malformed thresholds the mixer does not start, so no
\* tick is processed with them.
C9_MalformedNeverRuns ==
    Malformed(cfg) => tick.n = 0 /\ deck1.encoder_read_history = <<>>

\* C10 (as claimed): in shared-encoder mode both decks have the same state and
\* the same current rate after every tick.
C10_SharedDecksIdentical ==
    deck2 /= None =>
        /\ deck1.state = deck2[1].state
        /\ deck1.current_rate = deck2[1].current_rate


(***************************************************************************)
(* Properties of one DJDeck (SpecDeck)                                     *)
(***************************************************************************)
RNeg(a) == RSub(Zero, a)
IsSampleCall(i) == calls[i].op = "process_encoder_data" /\ calls[i].arg /= None
SampleVelocity(i) == calls[i].arg[1].enc1_velocity
WritesOf(i) == IF calls[i].volume /= None THEN 1 ELSE 0
RepeatedSetVolume(i) ==
    /\ i + 1 \in DOMAIN calls
    /\ calls[i].op = "set_volume"
    /\ calls[i + 1].op = "set_volume"
    /\ calls[i].arg = calls[i + 1].arg

\* C11 as stated: set_volume(v) twice in a row with the same v makes exactly
\* one write to the volume sink, for every v, and the second call changes nothing.
C11_IdempotenceAsClaimed ==
    \A i \in DOMAIN calls :
        RepeatedSetVolume(i) =>
            /\ WritesOf(i) + WritesOf(i + 1) = 1
            /\ calls[i + 1].after = calls[i + 1].before

\* C11: set_volume(v) twice in a row with the same v makes at most one write to
\* the volume sink: the second call changes neither the deck nor the sink, and
\* the first writes clamp(v), once, exactly when clamp(v) is at least 0.001
\* away from the volume before it and the deck has a volume pad.
C11_Idempotence ==
    \A i \in DOMAIN calls :
        RepeatedSetVolume(i) =>
            LET v == ClampUnit(calls[i].arg)
                old == calls[i].before.current_volume
                changes == ~RLt(RAbs(RSub(v, old)), CHANGE_EPSILON)
            IN  /\ calls[i + 1].volume = None
                /\ calls[i + 1].after = calls[i + 1].before
                /\ calls[i].volume /= None
                     <=> (changes /\ calls[i].before.volume_pad /= None)
                /\ calls[i].volume /= None => calls[i].volume = Some(v)
                /\ calls[i].after.current_volume = IF changes THEN v ELSE old
                /\ i + 1 = Len(calls) => sink = calls[i + 1].sink
                /\ calls[i].volume /= None => calls[i + 1].sink.vol1 = v

C11_Witness ==
    \E i \in DOMAIN calls :
        /\ RepeatedSetVolume(i)
        /\ i + 1 = Len(calls)
        /\ calls[i].volume /= None
        /\ sink.vol1 = calls[i].volume[1]

IsRoundTrip(i) ==
    /\ i + 1 \in DOMAIN calls
    /\ calls[i].op = "adjust_volume"
    /\ calls[i + 1].op = "adjust_volume"
    /\ calls[i + 1].arg = RNeg(calls[i].arg)
    /\ ~RLt(RAbs(calls[i].arg), CHANGE_EPSILON)

\* C12 as stated: from volume 0.5, adjust_volume(+0.1) then adjust_volume(-0.1)
\* returns to 0.5 with exactly two sink writes, and for every start volume v and
\* step d above the change epsilon adjust_volume(+d), adjust_volume(-d) returns to v.
C12_RoundTripAsClaimed ==
    \A i \in DOMAIN calls :
        IsRoundTrip(i) =>
            /\ calls[i + 1].after.current_volume = calls[i].before.current_volume
            /\ (calls[i].before.current_volume = <<1, 2>> /\ calls[i].arg = <<1, 10>>)
                 => WritesOf(i) + WritesOf(i + 1) = 2

\* C12: for every start volume v and step d with |d| >= 0.001 and v + d within
\* [0, 1], adjust_volume(+d) then adjust_volume(-d) returns current_volume to v;
\* a deck with a volume pad writes v + d and then v to it (two writes), a deck
\* without one writes nothing.  From 0.5 with d = 0.1 the volume returns to 0.5.
C12_RoundTrip ==
    \A i \in DOMAIN calls :
        IsRoundTrip(i) =>
            LET v == calls[i].before.current_volume
                mid == RAdd(v, calls[i].arg)
            IN  (RLe(Zero, mid) /\ RLe(mid, One)) =>
                    /\ calls[i].after.current_volume = mid
                    /\ calls[i + 1].after.current_volume = v
                    /\ IF calls[i].before.volume_pad /= None
                       THEN /\ calls[i].volume = Some(mid)
                            /\ calls[i + 1].volume = Some(v)
                       ELSE WritesOf(i) + WritesOf(i + 1) = 0

C12_Witness ==
    \E i \in DOMAIN calls :
        /\ IsRoundTrip(i)
        /\ calls[i].before.current_volume = <<1, 2>>
        /\ calls[i].arg = <<1, 10>>
        /\ calls[i].after.current_volume = <<3, 5>>
        /\ calls[i + 1].after.current_volume = <<1, 2>>
        /\ WritesOf(i) + WritesOf(i + 1) = 2

\* clamp(1.0 + velocity / 100, 0.0, 3.0), the numbers of the claim
CandidateRate(velocity) ==
    LET raw == RAdd(One, Rat(velocity[1], velocity[2] * 100))
    IN  IF RLt(raw, Zero) THEN Zero
        ELSE IF RLt(FromInt(3), raw) THEN FromInt(3)
        ELSE raw

\* C13: a call of process_encoder_data that leaves the deck in MODULATING_SPEED
\* takes as candidate rate clamp(1.0 + latestVelocity / VELOCITY_SCALE,
\* MIN_PLAYBACK_RATE, MAX_PLAYBACK_RATE), from the velocity of the sample just
\* appended and not from the history average: the rate afterwards is the
\* candidate or the rate before, and when the tempo is written the rate is the
\* candidate.  With velocity 250 the candidate 3.5 is clamped to 3.0.
C13_ModulatingFormula ==
    \A i \in DOMAIN calls :
        (IsSampleCall(i) /\ calls[i].after.state = "MODULATING_SPEED") =>
            LET candidate == CandidateRate(SampleVelocity(i))
            IN  /\ calls[i].after.current_rate \in {candidate, calls[i].before.current_rate}
                /\ calls[i].tempo /= None =>
                     /\ calls[i].after.current_rate = candidate
                     /\ calls[i].tempo = Some(RMax(<<1, 100>>, candidate))
                /\ candidate /= calls[i].before.current_rate =>
                     (calls[i].tempo /= None \/
                      RLe(RAbs(RSub(candidate, calls[i].before.current_rate)), <<1, 100>>))
                /\ SampleVelocity(i) = <<250, 1>> => candidate = <<3, 1>>

\* velocity 250 arrives after a different velocity, so the history average is
\* not the latest velocity, and the rate goes to the clamped 3.0
C13_Witness ==
    \E i \in DOMAIN calls :
        /\ IsSampleCall(i)
        /\ calls[i].after.state = "MODULATING_SPEED"
        /\ SampleVelocity(i) = <<250, 1>>
        /\ Len(calls[i].after.encoder_read_history) > 1
        /\ AvgRecentVelocity(calls[i].after) /= <<250, 1>>
        /\ calls[i].after.current_rate = <<3, 1>>
        /\ calls[i].tempo = Some(<<3, 1>>)

\* C14: whenever a call of process_encoder_data ends with the deck in
\* NORMAL_SPEED, current_rate is exactly 1.0 whatever the latest velocity and
\* the rate before, and set_property("tempo", 1.0) is called on that tick if
\* and only if the rate before was not 1.0.
C14_HardReset ==
    \A i \in DOMAIN calls :
        (IsSampleCall(i) /\ calls[i].after.state = "NORMAL_SPEED") =>
            /\ calls[i].after.current_rate = One
            /\ calls[i].tempo /= None <=> calls[i].before.current_rate /= One
            /\ calls[i].tempo /= None => calls[i].tempo = Some(One)
            /\ (i = Len(calls) /\ calls[i].tempo /= None /\ ~calls[i].raised)
                 => sink.rate1 = One

C14_Witness ==
    \E i \in DOMAIN calls :
        /\ IsSampleCall(i)
        /\ calls[i].after.state = "NORMAL_SPEED"
        /\ calls[i].before.current_rate /= One
        /\ SampleVelocity(i) /= <<-100, 1>>
        /\ calls[i].after.current_rate = One
        /\ calls[i].tempo = Some(One)

\* C15: a call of process_encoder_data that leaves the deck in MODULATING_SPEED
\* applies the candidate rate (current_rate updated, tempo written) only if
\* |candidate - previous rate| > 0.01; otherwise current_rate is unchanged and
\* no tempo is written on that tick.
C15_Hysteresis ==
    \A i \in DOMAIN calls :
        (IsSampleCall(i) /\ calls[i].after.state = "MODULATING_SPEED") =>
            LET candidate == CandidateRate(SampleVelocity(i))
                previous == calls[i].before.current_rate
            IN  IF RLt(<<1, 100>>, RAbs(RSub(candidate, previous)))
                THEN /\ calls[i].after.current_rate = candidate
                     /\ calls[i].tempo /= None
                     /\ (i = Len(calls) /\ ~calls[i].raised) => sink.rate1 = calls[i].tempo[1]
                ELSE /\ calls[i].after.current_rate = previous
                     /\ calls[i].tempo = None
                     /\ i = Len(calls) => sink = calls[i].sink

\* a candidate that differs from the previous rate by no more than 0.01 is dropped
C15_Witness ==
    \E i \in DOMAIN calls :
        /\ IsSampleCall(i)
        /\ calls[i].after.state = "MODULATING_SPEED"
        /\ CandidateRate(SampleVelocity(i)) /= calls[i].before.current_rate
        /\ calls[i].after.current_rate = calls[i].before.current_rate
        /\ calls[i].tempo = None
        /\ i = Len(calls)
        /\ sink = calls[i].sink

(***************************************************************************)
(* Properties of the history, the deck state and the volume                *)
(***************************************************************************)
History1 == deck1.encoder_read_history
History2 == IF deck2 = None THEN <<>> ELSE deck2[1].encoder_read_history
InArrivalOrder(h) ==
    \A i, j \in DOMAIN h : i < j => h[i].timestamp < h[j].timestamp

\* one step of a history: left alone, or the sample of this tick appended at
\* the end, the oldest sample leaving when the history was full
HistoryStep(h, g) ==
    \/ g = h
    \/ /\ tick'.result /= "read_failed"
       /\ g /= <<>>
       /\ g[Len(g)].timestamp = devNow'
       /\ g = Append(IF Len(h) = maxlen THEN Tail(h) ELSE h, g[Len(g)])

\* C16: after any sequence of ticks a deck's history holds at most N samples
\* (N = maxlen), in arrival order; appending to a full history evicts exactly
\* the oldest sample, and a sample is appended only on a tick whose poll
\* succeeded.
C16_BoundedFifo ==
    /\ [](/\ Len(History1) <= maxlen /\ InArrivalOrder(History1)
          /\ Len(History2) <= maxlen /\ InArrivalOrder(History2))
    /\ [][HistoryStep(History1, History1') /\ HistoryStep(History2, History2')]_vars

\* the history is full and its first sample has been evicted
C16_Witness ==
    /\ Len(History1) = maxlen
    /\ reader.total_reads > maxlen
    /\ History1[1].timestamp > I2C_POLL_RATE_MS
    /\ History1[maxlen].timestamp = devNow

\* C17: a deck starts in NORMAL_SPEED with current rate 1.0 and volume
\* DEFAULT_VOLUME, and after any sequence of ticks, volume changes and
\* control-mode changes its state is NORMAL_SPEED or MODULATING_SPEED, never
\* CALIBRATING.
C17_NeverCalibrating ==
    /\ deck1.state \in {"NORMAL_SPEED", "MODULATING_SPEED"}
    /\ \A i \in DOMAIN calls :
         /\ calls[i].before.state \in {"NORMAL_SPEED", "MODULATING_SPEED"}
         /\ calls[i].after.state \in {"NORMAL_SPEED", "MODULATING_SPEED"}
    /\ calls = <<>> =>
         /\ deck1.state = "NORMAL_SPEED"
         /\ deck1.current_rate = <<1, 1>>
         /\ deck1.current_volume = DEFAULT_VOLUME

\* a tick, a volume change and a control-mode change have all taken effect
C17_Witness ==
    /\ deck1.state = "MODULATING_SPEED"
    /\ deck1.current_volume /= DEFAULT_VOLUME
    /\ deck1.control_mode = "turntable"
    /\ \E i \in DOMAIN calls : IsSampleCall(i)

InUnitRange(x) == RLe(Zero, x) /\ RLe(x, One)

\* C18: after any sequence of set_volume(v) and adjust_volume(delta) calls
\* with arbitrary arguments, current_volume is in [0, 1] and every value
\* written to the volume sink is in [0, 1].
C18_VolumeRange ==
    /\ InUnitRange(deck1.current_volume)
    /\ InUnitRange(sink.vol1)
    /\ \A i \in DOMAIN calls :
         /\ InUnitRange(calls[i].after.current_volume)
         /\ calls[i].volume /= None => InUnitRange(calls[i].volume[1])

\* set_volume(-0.5) and an adjust_volume that overshoots both reached the sink
C18_Witness ==
    /\ \E i \in DOMAIN calls :
         /\ calls[i].op = "set_volume"
         /\ calls[i].arg = <<-1, 2>>
         /\ calls[i].volume = Some(Zero)
    /\ \E i \in DOMAIN calls :
         /\ calls[i].op = "adjust_volume"
         /\ ~InUnitRange(RAdd(calls[i].before.current_volume, calls[i].arg))
         /\ calls[i].volume /= None

(***************************************************************************)
(* Properties of the tick handler                                          *)
(***************************************************************************)
\* C19: a tick whose poll fails is skipped with no retry inside the tick: the
\* decks (history, state, current rate, current volume), the velocity
\* estimators, the button edge-detection state and the sinks are unchanged and
\* no sink write happens; the reader counts one error.
C19_FailedPollNoOp ==
    [][(tick'.n = tick.n + 1 /\ tick'.result = "read_failed") =>
          /\ deck1' = deck1
          /\ deck2' = deck2
          /\ reader' = [reader EXCEPT !.read_errors = @ + 1]
          /\ mixer' = mixer
          /\ sink' = sink
          /\ tick'.writes = {}]_vars

\* a poll failed after samples, a volume change and a button press were taken in
C19_Witness ==
    /\ tick.result = "read_failed"
    /\ tick.writes = {}
    /\ deck1.encoder_read_history /= <<>>
    /\ deck1.current_volume /= DEFAULT_VOLUME
    /\ mixer.last_button_states /= {}
    /\ reader.tracker_enc1 /= NewTracker

\* C20: on every path of the tick handler (successful tick, failed poll, an
\* exception raised inside the try block) the handler returns True, so the
\* next tick is always scheduled.
C20_AlwaysRescheduled ==
    /\ tick.result \in {"none", "ok", "read_failed", "exception"}
    /\ tick.scheduled

\* a tick ran to the end after a failed poll and after a tick that raised
C20_Witness ==
    /\ tick.result = "ok"
    /\ tick.sink_failures > 0
    /\ reader.read_errors > 0
    /\ tick.scheduled

(***************************************************************************)
(* Properties of the predictive tracker's wall-clock reference             *)
(***************************************************************************)
PositionChangedAt(i) == i > 1 /\ fed[i].position /= fed[i - 1].position

\* the sample at which the position fed up to sample k last changed (the
\* first sample when it never changed)
RECURSIVE LastChangeIndex(_)
LastChangeIndex(k) ==
    IF k <= 1 \/ PositionChangedAt(k) THEN k ELSE LastChangeIndex(k - 1)

\* C21: on every update in which the position differs from last_position the
\* tracker's last_velocity_update_time is set to the host's current time, so
\* the stop timeout is measured from the most recent observed position change.
C21_WallClockOnChange ==
    PositionChangedAt(Len(fed)) =>
        tracker.last_velocity_update_time = Some(fed[Len(fed)].arrival)

\* C22: an update with unchanged position that arrives within
\* VELOCITY_TIMEOUT_MS (host clock) of the last position change returns exactly
\* the previously predicted velocity and changes none of the tracker's state.
C22_PredictiveHold ==
    [][(/\ fed /= <<>>
        /\ Len(fed') = Len(fed) + 1
        /\ fed'[Len(fed')].position = fed[Len(fed)].position
        /\ fed'[Len(fed')].arrival - fed[LastChangeIndex(Len(fed))].arrival
             <= VELOCITY_TIMEOUT_MS)
       => /\ tracker' = tracker
          /\ outs'[Len(outs')] = tracker.predicted_velocity]_vars

(***************************************************************************)
(* Properties of the windowed estimator                                    *)
(***************************************************************************)
\* the oldest sample the window retains once sample i is appended
OldestRetained(i) == IF i > window_size THEN i - window_size + 1 ELSE 1

\* C24: with fewer than 2 samples in the window the smoother returns 0;
\* otherwise, when the device time between the oldest and the newest retained
\* sample exceeds 1 ms, it returns (newest.position - oldest.position) /
\* ((newest.timestamp - oldest.timestamp) / 1000), the window retaining only
\* the last window_size samples.
C24_WindowedResult ==
    /\ \A i \in 1..Len(fed) :
         LET lo == OldestRetained(i)
             span == fed[i].timestamp - fed[lo].timestamp
         IN  /\ i = 1 => outs[i] = Zero
             /\ (i >= 2 /\ span > 1) =>
                  outs[i] = Rat(1000 * (fed[i].position - fed[lo].position), span)
    /\ fed /= <<>> =>
         LET n == Len(fed)
             kept == (n + 1) - OldestRetained(n)
         IN  /\ smoother.positions = [k \in 1..kept |-> fed[OldestRetained(n) + k - 1].position]
             /\ smoother.timestamps = [k \in 1..kept |-> fed[OldestRetained(n) + k - 1].timestamp]

\* the window has dropped its first sample, and the result differs from the
\* velocity over all the samples fed and from the velocity over the last two
C24_Witness ==
    LET n == Len(fed)
        lo == OldestRetained(n)
    IN  /\ n > window_size
        /\ fed[n].timestamp - fed[lo].timestamp > 1
        /\ fed[n].timestamp - fed[n - 1].timestamp > 1
        /\ outs[n] /= Zero
        /\ outs[n] /= Rat(1000 * (fed[n].position - fed[1].position),
                          fed[n].timestamp - fed[1].timestamp)
        /\ outs[n] /= Rat(1000 * (fed[n].position - fed[n - 1].position),
                          fed[n].timestamp - fed[n - 1].timestamp)

(***************************************************************************)
(* Properties of the two estimators side by side (SpecEstimators)          *)
(***************************************************************************)
\* the latest reset() (0 when there was none)
RECURSIVE LastReset(_)
LastReset(k) == IF k = 0 \/ fed[k].reset THEN k ELSE LastReset(k - 1)

\* from sample i on, a tracker in state self returns what outs records and
\* ends as the tracker is now
RECURSIVE TrackerReplays(_, _)
TrackerReplays(self, i) ==
    IF i > Len(fed) THEN self = tracker
    ELSE LET r == TrackerUpdate(self, fed[i].position, fed[i].timestamp, fed[i].arrival)
         IN  outs[i].tracker = r.ret /\ TrackerReplays(r.self, i + 1)

RECURSIVE SmootherReplays(_, _)
SmootherReplays(self, i) ==
    IF i > Len(fed) THEN self = smoother
    ELSE LET r == SmootherUpdate(self, fed[i].position, fed[i].timestamp)
         IN  outs[i].smoother = r.ret /\ SmootherReplays(r.self, i + 1)

\* C23: the first update of a predictive tracker returns 0 and records that
\* sample as the reference; reset() on either estimator restores the initial
\* state, so the updates after a reset return what a freshly constructed
\* estimator returns for the same samples (first result 0).
C23_FirstSampleAndReset ==
    LET first == LastReset(Len(fed)) + 1
    IN  /\ first = Len(fed) + 1 =>
             /\ tracker = NewTracker
             /\ smoother = NewSmoother
        /\ first = Len(fed) =>
             /\ outs[first].tracker = Zero
             /\ outs[first].smoother = Zero
             /\ tracker = [last_position |-> Some(fed[first].position),
                           last_timestamp |-> Some(fed[first].timestamp),
                           predicted_velocity |-> Zero,
                           last_velocity_update_time |-> Some(fed[first].arrival)]
        /\ first <= Len(fed) =>
             /\ outs[first].tracker = Zero
             /\ outs[first].smoother = Zero
        /\ TrackerReplays(NewTracker, first)
        /\ SmootherReplays(NewSmoother, first)

\* both estimators held a nonzero velocity when they were reset and have
\* returned 0 and then a nonzero velocity again since
C23_Witness ==
    LET k == LastReset(Len(fed))
    IN  /\ k > 1
        /\ outs[k - 1].tracker /= Zero
        /\ outs[k - 1].smoother /= Zero
        /\ Len(fed) = k + 2
        /\ outs[k + 1].tracker = Zero
        /\ outs[k + 1].smoother = Zero
        /\ outs[k + 2].tracker /= Zero
        /\ outs[k + 2].smoother /= Zero

\* the step is an update with this sample
IsFeedStep == Len(fed') = Len(fed) + 1 /\ ~fed'[Len(fed')].reset
Fed == fed'[Len(fed')]
Returned == outs'[Len(outs')]

\* the tracker sees a changed position no more than 1 ms of device time after
\* its reference sample
TrackerDegenerate ==
    /\ tracker.last_position /= None
    /\ Fed.position /= tracker.last_position[1]
    /\ Fed.timestamp - tracker.last_timestamp[1] <= 1

\* the smoother's window, with the sample appended, spans no more than 1 ms
SmootherDegenerate ==
    /\ smoother.timestamps /= <<>>
    /\ Fed.timestamp - (IF Len(smoother.timestamps) = window_size
                        THEN smoother.timestamps[IF window_size > 1 THEN 2 ELSE 1]
                        ELSE smoother.timestamps[1]) <= 1

IsVelocity(x) == Len(x) = 2 /\ x[2] > 0

\* C25: neither estimator divides when the elapsed device time is 1 ms or
\* less (zero or negative included): the tracker returns and keeps its
\* predicted_velocity, the smoother returns and keeps its last_velocity, and
\* every value returned is a number.
C25_DegenerateTiming ==
    [][IsFeedStep =>
         /\ IsVelocity(Returned.tracker)
         /\ IsVelocity(Returned.smoother)
         /\ TrackerDegenerate =>
              /\ Returned.tracker = tracker.predicted_velocity
              /\ tracker'.predicted_velocity = tracker.predicted_velocity
         /\ SmootherDegenerate =>
              /\ Returned.smoother = smoother.last_velocity
              /\ smoother'.last_velocity = smoother.last_velocity]_vars

\* a sample with a changed position and an earlier device timestamp than the
\* one before it: both estimators returned the nonzero velocity they held
C25_Witness ==
    LET n == Len(fed)
    IN  /\ n > 2
        /\ ~fed[n].reset /\ ~fed[n - 1].reset
        /\ fed[n].timestamp < fed[n - 1].timestamp
        /\ fed[n].position /= fed[n - 1].position
        /\ outs[n].tracker /= Zero
        /\ outs[n].tracker = outs[n - 1].tracker
        /\ outs[n].smoother /= Zero
        /\ outs[n].smoother = smoother.last_velocity
        /\ smoother.timestamps[Len(smoother.timestamps)] - smoother.timestamps[1] <= 1

(***************************************************************************)
(* Properties of the rate and volume channels of one DJDeck                *)
(***************************************************************************)
\* the sinks as call i left them
SinkAfter(i) == IF i = Len(calls) THEN sink ELSE calls[i + 1].sink

\* C26: set_volume and adjust_volume never change the deck's state,
\* current_rate or history and never write the rate sink; processing a sample
\* never changes current_volume and never writes the volume sink; the
\* turntable state is changed by process_encoder_data only.
C26_IndependentChannels ==
    \A i \in DOMAIN calls :
        /\ calls[i].op \in {"set_volume", "adjust_volume"} =>
             /\ calls[i].after.state = calls[i].before.state
             /\ calls[i].after.current_rate = calls[i].before.current_rate
             /\ calls[i].after.encoder_read_history = calls[i].before.encoder_read_history
             /\ calls[i].tempo = None
             /\ SinkAfter(i).rate1 = calls[i].sink.rate1
        /\ calls[i].op = "process_encoder_data" =>
             /\ calls[i].after.current_volume = calls[i].before.current_volume
             /\ calls[i].volume = None
             /\ SinkAfter(i).vol1 = calls[i].sink.vol1
        /\ calls[i].op /= "process_encoder_data" =>
             calls[i].after.state = calls[i].before.state

\* a volume write on a deck that is modulating away from rate 1.0, and a tempo
\* write on a deck whose volume has been turned down
C26_Witness ==
    /\ \E i \in DOMAIN calls :
         /\ calls[i].op \in {"set_volume", "adjust_volume"}
         /\ calls[i].volume /= None
         /\ calls[i].before.state = "MODULATING_SPEED"
         /\ calls[i].before.current_rate /= One
    /\ \E i \in DOMAIN calls :
         /\ IsSampleCall(i)
         /\ calls[i].tempo /= None
         /\ calls[i].before.current_volume /= DEFAULT_VOLUME
         /\ calls[i].after.state /= calls[i].before.state

StrictlyInBand(v) == RLt(<<-120, 1>>, v) /\ RLt(v, <<-80, 1>>)
HistoryVelocities(h) == [k \in 1..Len(h) |-> h[k].enc1_velocity]
MeanVelocity(h) == RDivInt(RSum(HistoryVelocities(h)), Len(h))

\* a sample outside the band arrives at a deck in NORMAL_SPEED whose history
\* is full of velocities strictly inside the band
IsSpike(i) ==
    /\ IsSampleCall(i)
    /\ calls[i].before.state = "NORMAL_SPEED"
    /\ Len(calls[i].before.encoder_read_history) = maxlen
    /\ \A k \in 1..maxlen :
         StrictlyInBand(calls[i].before.encoder_read_history[k].enc1_velocity)
    /\ ~StrictlyInBand(SampleVelocity(i))

InRateRange(x) == RLe(<<0, 1>>, x) /\ RLe(x, <<3, 1>>)

\* C30: after any sequence of ticks current_rate is in [MIN_PLAYBACK_RATE,
\* MAX_PLAYBACK_RATE] = [0.0, 3.0]; the 0.01 floor is applied to the value
\* handed to the sink only: the candidate is stored unfloored, and the next
\* hysteresis comparison is made against the stored value.
C30_StoredRateRange ==
    /\ InRateRange(deck1.current_rate)
    /\ \A i \in DOMAIN calls :
         /\ InRateRange(calls[i].after.current_rate)
         /\ (IsSampleCall(i) /\ calls[i].after.state = "MODULATING_SPEED") =>
              LET candidate == CandidateRate(SampleVelocity(i))
                  stored == calls[i].before.current_rate
              IN  /\ calls[i].tempo /= None
                       <=> RLt(<<1, 100>>, RAbs(RSub(candidate, stored)))
                  /\ calls[i].tempo /= None =>
                       /\ calls[i].after.current_rate = candidate
                       /\ calls[i].tempo = Some(RMax(<<1, 100>>, candidate))

\* the deck stored 0.0 while the sink was told 0.01, and the candidate 0.015
\* was then applied: it is more than 0.01 from the stored rate, not from the
\* value in the sink
C30_Witness ==
    \E i \in DOMAIN calls :
        /\ IsSampleCall(i)
        /\ calls[i].before.current_rate = Zero
        /\ calls[i].sink.rate1 = <<1, 100>>
        /\ CandidateRate(SampleVelocity(i)) = <<3, 200>>
        /\ calls[i].after.current_rate = <<3, 200>>
        /\ calls[i].tempo = Some(<<3, 200>>)

(***************************************************************************)
(* Properties of the two decks of the polling loop                         *)
(***************************************************************************)
Newest(h) == h[Len(h)]

\* C27: in shared-encoder mode each deck keeps its own history: on every
\* successful tick both decks append the identical sample, and an append to
\* (or an eviction from) one deck's history never changes the other deck's
\* history: each history takes its own step, also on a tick that appends to
\* deck 1 only.
C27_SharedFanOut ==
    [][(deck2 /= None /\ tick'.n = tick.n + 1) =>
         /\ tick'.result = "ok" =>
              /\ History1' = Append(IF Len(History1) = maxlen THEN Tail(History1)
                                                              ELSE History1,
                                    Newest(History1'))
              /\ History2' = Append(IF Len(History2) = maxlen THEN Tail(History2)
                                                              ELSE History2,
                                    Newest(History2'))
              /\ Newest(History1') = Newest(History2')
              /\ Newest(History1').timestamp = devNow'
         /\ HistoryStep(History1, History1')
         /\ HistoryStep(History2, History2')
         /\ tick'.result = "read_failed" =>
              History1' = History1 /\ History2' = History2]_vars

\* deck 1 has evicted a sample that deck 2 still holds, and both hold the
\* sample of the latest tick
C27_Witness ==
    /\ deck2 /= None
    /\ tick.result = "ok"
    /\ Len(History1) = maxlen
    /\ Len(History2) = maxlen
    /\ History1[1] /= History2[1]
    /\ History1[1].timestamp > History2[1].timestamp
    /\ Newest(History1) = Newest(History2)
    /\ Newest(History1).enc1_velocity /= Newest(History1).enc2_velocity

\* C29: after any sequence of ticks in which no sink write failed, the tempo
\* last written to a deck's rate element (1.0 at construction) equals
\* max(0.01, current_rate) of that deck.
C29_SinkMatchesRate ==
    tick.sink_failures = 0 =>
        /\ sink.rate1 = RMax(<<1, 100>>, deck1.current_rate)
        /\ deck2 /= None => sink.rate2 = RMax(<<1, 100>>, deck2[1].current_rate)

\* no write failed, deck 1 holds a rate below the floor and deck 2 a rate
\* above it, both written
C29_Witness ==
    /\ tick.sink_failures = 0
    /\ deck2 /= None
    /\ deck1.current_rate = <<0, 1>>
    /\ sink.rate1 = <<1, 100>>
    /\ deck2[1].current_rate \notin {<<0, 1>>, <<1, 1>>}
    /\ sink.rate2 = deck2[1].current_rate

(***************************************************************************)
(* Properties of the predictive tracker's reference point                  *)
(***************************************************************************)
\* C31: the predictive tracker's reference position and reference device
\* timestamp are those of the latest sample whose position changed (of the
\* first sample while none changed); a sample with a changed position and more
\* than 1 ms of device time since that reference returns (position - reference
\* position) / (device time since the reference), so unchanged samples
\* lengthen the interval of the next velocity computation.
C31_ReferencePoint ==
    /\ fed /= <<>> =>
         /\ tracker.last_position = Some(fed[LastChangeIndex(Len(fed))].position)
         /\ tracker.last_timestamp = Some(fed[LastChangeIndex(Len(fed))].timestamp)
    /\ \A k \in 2..Len(fed) :
         LET ref == fed[LastChangeIndex(k - 1)]
         IN  (PositionChangedAt(k) /\ fed[k].timestamp - ref.timestamp > 1) =>
                 outs[k] = Rat(1000 * (fed[k].position - ref.position),
                               fed[k].timestamp - ref.timestamp)

\* C31 witness: a velocity was computed over an interval that unchanged samples
\* had lengthened beyond one sample period.
C31_Witness ==
    \E k \in 3..Len(fed) :
        /\ PositionChangedAt(k)
        /\ LastChangeIndex(k - 1) < k - 1
        /\ fed[k].timestamp - fed[LastChangeIndex(k - 1)].timestamp
             > fed[k].timestamp - fed[k - 1].timestamp
        /\ fed[k].timestamp - fed[k - 1].timestamp > 1
        /\ outs[k] = Rat(1000 * (fed[k].position - fed[k - 1].position),
                         fed[k].timestamp - fed[LastChangeIndex(k - 1)].timestamp)

\* the update for sample m computed a velocity: its position changed and more
\* than 1 ms of device time had passed since the reference sample
VelocityComputedAt(m) ==
    /\ PositionChangedAt(m)
    /\ fed[m].timestamp - fed[LastChangeIndex(m - 1)].timestamp > 1

\* the update for sample i forced a nonzero prediction to 0: only the timeout
\* of the unchanged branch does that
TimedOutAt(i) ==
    i > 1 /\ ~PositionChangedAt(i) /\ outs[i - 1] /= Zero /\ outs[i] = Zero

\* C32: once the predictive tracker has forced its velocity to 0 by timeout,
\* every later update returns 0 until an update with a changed position and
\* more than 1 ms of elapsed device time; an update with an unchanged position
\* never moves last_velocity_update_time and never makes a zero prediction
\* nonzero.
C32_StoppedStaysStopped ==
    /\ [](\A i \in 2..Len(fed) : \A j \in (i + 1)..Len(fed) :
            (TimedOutAt(i) /\ \A m \in (i + 1)..j : ~VelocityComputedAt(m))
                => outs[j] = Zero)
    /\ [][(/\ fed /= <<>>
           /\ Len(fed') = Len(fed) + 1
           /\ fed'[Len(fed')].position = fed[Len(fed)].position)
          => /\ tracker'.last_velocity_update_time
                  = tracker.last_velocity_update_time
             /\ tracker.predicted_velocity = Zero
                  => tracker'.predicted_velocity = Zero]_vars

\* C32 witness: after a timeout the tracker returned 0 for an unchanged sample
\* inside the timeout period and again for a changed sample no more than 1 ms
\* of device time after the reference.
C32_Witness ==
    \E i \in 2..Len(fed) :
        /\ TimedOutAt(i)
        /\ i + 2 <= Len(fed)
        /\ ~PositionChangedAt(i + 1)
        /\ fed[i + 1].arrival - fed[i].arrival <= VELOCITY_TIMEOUT_MS
        /\ PositionChangedAt(i + 2)
        /\ ~VelocityComputedAt(i + 2)
        /\ outs[i + 1] = Zero
        /\ outs[i + 2] = Zero

(***************************************************************************)
(* Properties of the polling loop in shared-encoder mode                   *)
(***************************************************************************)
\* the tick taken by this step read a packet
PacketRead == reader'.total_reads = reader.total_reads + 1

\* C33: with both decks on one EncoderReader, every tick polls the reader
\* exactly once: exactly one of total_reads and read_errors advances, by one;
\* each tracker is updated once with the packet (not at all when the poll
\* failed); the sample goes to deck 1 and then to deck 2, so deck 2 never
\* receives a sample that deck 1 did not, and a tick that runs to its end
\* leaves the same sample newest in both histories.
C33_OneReadPerTick ==
    /\ [](deck2 /= None => reader.total_reads + reader.read_errors = tick.n)
    /\ [][(deck2 /= None /\ tick'.n = tick.n + 1) =>
            /\ (reader'.total_reads + reader'.read_errors)
                 = (reader.total_reads + reader.read_errors) + 1
            /\ PacketRead =>
                 /\ reader'.tracker_enc1
                      = TrackerUpdate(reader.tracker_enc1, reader'.last_enc1_position,
                                      devNow', hostNow').self
                 /\ reader'.tracker_enc2
                      = TrackerUpdate(reader.tracker_enc2, reader'.last_enc2_position,
                                      devNow', hostNow').self
                 /\ History1' = DequeAppend(History1, Newest(History1'), maxlen)
                 /\ Newest(History1').timestamp = devNow'
                 /\ Newest(History1').enc1_position = reader'.last_enc1_position
                 /\ Newest(History1').enc1_velocity
                      = reader'.tracker_enc1.predicted_velocity
                 /\ History2' /= History2 =>
                      History2' = DequeAppend(History2, Newest(History1'), maxlen)
                 /\ tick'.result = "ok" => History2' /= History2
            /\ ~PacketRead =>
                 /\ reader'.tracker_enc1 = reader.tracker_enc1
                 /\ reader'.tracker_enc2 = reader.tracker_enc2
                 /\ History1' = History1
                 /\ History2' = History2]_vars

\* C33 witness: in shared-encoder mode a failed poll was followed by a packet
\* in which encoder 1 moved; the tracker computed its velocity from that one
\* packet and both decks hold the sample.
C33_Witness ==
    /\ deck2 /= None
    /\ reader.read_errors > 0
    /\ reader.total_reads >= 2
    /\ tick.result = "ok"
    /\ reader.tracker_enc1.last_timestamp = Some(devNow)
    /\ reader.tracker_enc1.predicted_velocity /= Zero
    /\ Newest(History1) = Newest(History2)
    /\ Newest(History1).enc1_velocity = reader.tracker_enc1.predicted_velocity

(***************************************************************************)
(* Properties of the polling loop in dual-encoder mode                     *)
(***************************************************************************)
\* this step is a tick in which the first device's read failed
Deck1ReadFailed ==
    tick'.n = tick.n + 1 /\ reader'.read_errors = reader.read_errors + 1

\* this step is a tick in which the first device's read succeeded and the
\* second device's read failed
Deck2ReadFailed ==
    /\ tick'.n = tick.n + 1
    /\ reader'.total_reads = reader.total_reads + 1
    /\ reader2'[1].read_errors = reader2[1].read_errors + 1

\* C34: in dual-encoder mode a tick whose deck 1 read fails is abandoned: the
\* second device is not polled and both decks and the sinks stay as they were;
\* a tick whose deck 1 read succeeds and whose deck 2 read fails keeps deck
\* 1's update (sample appended, state recomputed, a changed rate written to
\* its sink) and skips deck 2 only.
C34_FailureCoupling ==
    [][/\ (reader2 /= None /\ Deck1ReadFailed) =>
            /\ reader2' = reader2
            /\ deck2' = deck2
            /\ deck1' = deck1
            /\ sink' = sink
       /\ (reader2 /= None /\ Deck2ReadFailed) =>
            /\ deck2' = deck2
            /\ sink'.rate2 = sink.rate2
            /\ reader2'[1].total_reads = reader2[1].total_reads
            /\ reader2'[1].tracker_enc2 = reader2[1].tracker_enc2
            /\ History1' = DequeAppend(History1, Newest(History1'), maxlen)
            /\ Newest(History1').timestamp = devNow'
            /\ Newest(History1').enc1_velocity
                 = reader'.tracker_enc1.predicted_velocity
            /\ deck1'.state = IF InNormalBand(AvgRecentVelocity(deck1'))
                              THEN "NORMAL_SPEED" ELSE "MODULATING_SPEED"
            /\ deck1'.current_rate /= deck1.current_rate => "rate1" \in tick'.writes
            /\ sink'.rate1 = IF "rate1" \in tick'.writes
                             THEN SinkTempo(deck1'.current_rate)
                             ELSE sink.rate1]_vars

\* C34 witness: a tick was abandoned on a failed deck 1 read while deck 2 held
\* samples, and on the latest tick deck 2's read failed while deck 1 moved to
\* a new rate that reached its sink.
C34_Witness ==
    /\ reader2 /= None
    /\ reader.read_errors > 0
    /\ tick.result = "deck2_skipped"
    /\ reader2[1].read_errors > 0
    /\ Len(History2) > 0
    /\ Len(History1) > Len(History2)
    /\ deck2[1].current_rate /= One
    /\ deck1.current_rate /= One
    /\ sink.rate1 = SinkTempo(deck1.current_rate)
    /\ "rate1" \in tick.writes

(***************************************************************************)
(* Properties of the buttons                                               *)
(***************************************************************************)
\* this step is a tick in which _process_button_data ran: the tick ran to its
\* end, or ended in deck 2's tempo write, which comes after the buttons
ButtonsProcessed ==
    /\ tick'.n = tick.n + 1
    /\ \/ tick'.result = "ok"
       \/ tick'.result = "exception" /\ "rate2" \in tick'.writes

\* the volume a deck has after the buttons up and down of one packet acted on
\* volume v: adjust_volume(VOLUME_STEP) if up is held, then
\* adjust_volume(-VOLUME_STEP) if down is held
VolumeAfterButtons(v, buttons, up, down) ==
    LET a == IF up \in buttons THEN ClampUnit(RAdd(v, VOLUME_STEP)) ELSE v
    IN  IF down \in buttons THEN ClampUnit(RSub(a, VOLUME_STEP)) ELSE a

\* C35: over the ticks in which the buttons are processed, reverb1_on flips
\* exactly on the ticks where button 4 is down and was up in the previously
\* processed tick, and never while it stays held; on ticks that do not process
\* the buttons it is left alone; after every tick the deck 1 reverb level, and
\* the level of the reverb element, is REVERB_AMOUNT when reverb1_on and 0.0
\* otherwise; a held volume button moves the deck's volume by one VOLUME_STEP
\* (within [0, 1]) on every processed tick.
C35_EdgeTriggeredReverb ==
    /\ [](/\ mixer.current_reverb1 = IF mixer.reverb1_on THEN REVERB_AMOUNT ELSE Zero
          /\ sink.reverb1 = mixer.current_reverb1)
    /\ [][/\ ButtonsProcessed =>
               /\ (mixer'.reverb1_on /= mixer.reverb1_on)
                    <=> (4 \in mixer'.last_button_states
                         /\ 4 \notin mixer.last_button_states)
               /\ 4 \in tick'.held => mixer'.reverb1_on = mixer.reverb1_on
               /\ deck1'.current_volume
                    = VolumeAfterButtons(deck1.current_volume,
                                         mixer'.last_button_states, 0, 1)
               /\ deck2 /= None =>
                    deck2'[1].current_volume
                      = VolumeAfterButtons(deck2[1].current_volume,
                                           mixer'.last_button_states, 2, 3)
          /\ (tick'.n = tick.n + 1 /\ ~ButtonsProcessed) =>
               /\ mixer' = mixer
               /\ deck1'.current_volume = deck1.current_volume]_vars

\* C35 witness: buttons 1 and 4 were down in the first packet and still down
\* in the second: the reverb flag flipped once and is on at REVERB_AMOUNT,
\* the volume went down by two steps.
C35_Witness ==
    /\ tick.n = 2
    /\ tick.held = {1, 4}
    /\ mixer.reverb1_on
    /\ mixer.current_reverb1 = REVERB_AMOUNT
    /\ sink.reverb1 = REVERB_AMOUNT
    /\ deck1.current_volume = <<9, 10>>

(***************************************************************************)
(* Properties of the single-song Player                                    *)
(***************************************************************************)
\* the pipelines this step sets to NULL, and the pipeline it drops from
\* self.pipeline
StoppedBy == {id \in DOMAIN gst : gst[id].state /= "NULL" /\ gst'[id].state = "NULL"}
ClearedBy == IF player.pipeline /= None /\ player'.pipeline = None
             THEN {player.pipeline[1]} ELSE {}

\* C36: when _on_bus_message, handling an End-of-Stream message, sets a
\* pipeline to NULL or clears self.pipeline, that pipeline is the one the
\* message came from: the End-of-Stream of a pipeline that play_song has
\* replaced never stops or clears the pipeline started after it.
C36_EosStopsOwnPipeline ==
    [][loopAt' /= loopAt =>
          \A id \in StoppedBy \cup ClearedBy : id = loopAt.src]_vars

\* the pipelines that are not in NULL
Live == {id \in DOMAIN gst : gst[id].state /= "NULL"}

\* this step is the calling thread leaving line `line` of method op
CallerLeaves(op, line) == CallerIn(op, line) /\ callerAt' /= callerAt

\* C37: at most one pipeline is out of NULL at any time; pause changes a
\* pipeline only from PLAYING to PAUSED and resume only from PAUSED to
\* PLAYING; with no pipeline both change nothing; a resume that follows a
\* pause leaves the pipeline PLAYING.
C37_PlayerLifecycle ==
    /\ [](Cardinality(Live) <= 1)
    /\ [][/\ CallerLeaves("pause", 90) =>
               \A id \in DOMAIN gst :
                   gst'[id] /= gst[id] =>
                       gst[id].state = "PLAYING" /\ gst'[id].state = "PAUSED"
          /\ CallerLeaves("resume", 96) =>
               \A id \in DOMAIN gst :
                   gst'[id] /= gst[id] =>
                       gst[id].state = "PAUSED" /\ gst'[id].state = "PLAYING"
          /\ (CallerLeaves("resume", 96) /\ ~callerAt'.raised) =>
               player'.pipeline /= None
               /\ gst'[player'.pipeline[1]].state = "PLAYING"
          /\ (callerAt.op = "none" /\ player.pipeline = None
              /\ callerAt'.op \in {"none", "pause", "resume"}) =>
               gst' = gst /\ callerAt'.op = "none"]_vars

(***************************************************************************)
(* Properties of the token cache                                           *)
(***************************************************************************)
\* the second at which token id stops being valid
ValidUntil(id) == spotify[id].issued_at + spotify[id].expires_in

\* C38: get_spotify_token returns the cached token without a request exactly
\* when a token is cached and now < expires_at; otherwise it requests one,
\* and on success caches it with expires_at = now + expires_in - 60; a
\* request that fails leaves the cache as it was; so a token returned from
\* the cache has more than 60 seconds of validity left.
C38_TokenCacheFreshness ==
    /\ [](/\ (served.n > 0 /\ ~served.fetched) =>
               /\ served.token /= None
               /\ served.now < ValidUntil(served.token[1]) - 60
          /\ TOKEN_CACHE.access_token /= None =>
               TOKEN_CACHE.expires_at + 60 <= ValidUntil(TOKEN_CACHE.access_token[1]))
    /\ [][served'.n = served.n + 1 =>
            /\ ~served'.fetched
                 <=> (TOKEN_CACHE.access_token /= None
                      /\ served'.now < TOKEN_CACHE.expires_at)
            /\ ~served'.fetched =>
                 /\ served'.token = TOKEN_CACHE.access_token
                 /\ TOKEN_CACHE' = TOKEN_CACHE
                 /\ spotify' = spotify
            /\ (served'.fetched /\ ~served'.raised) =>
                 /\ Len(spotify') = Len(spotify) + 1
                 /\ served'.token = Some(Len(spotify'))
                 /\ TOKEN_CACHE'.access_token = served'.token
                 /\ TOKEN_CACHE'.expires_at
                      = served'.now + spotify'[Len(spotify')].expires_in - 60
            /\ served'.raised =>
                 /\ served'.fetched
                 /\ TOKEN_CACHE' = TOKEN_CACHE]_vars

\* C38 witness: the first token was returned from the cache one second
\* before its expires_at; the call at expires_at itself requested a new
\* token, the request failed, and the expired token is still cached.
C38_Witness ==
    /\ served.n = 3
    /\ served.hits = 1
    /\ Len(spotify) = 1
    /\ served.raised
    /\ served.now = TOKEN_CACHE.expires_at
    /\ TOKEN_CACHE.access_token = Some(1)
    /\ unixTime = 1000 + 3539 + 1
====
